---------------------------- MODULE Spec2Model ----------------------------
(***************************************************************************)
(* Model of the cognitive enrichment pipeline of news-curator:             *)
(*   services/cognitive/main.py            CognitiveProcessor              *)
(*   services/cognitive/entity_extractor.py EntityExtractor                *)
(*   services/cognitive/causal_mapper.py    CausalMapper                   *)
(*   services/cognitive/fact_checker.py     FactChecker                    *)
(*   services/cognitive/impact_summarizer.py ImpactSummarizer              *)
(*   shared/models/events.py                Entity, CausalRelationship,    *)
(*                                          ImpactSummary, StructuredGraphEvent *)
(*                                                                         *)
(* Confidences and sentiments are real numbers in the code; they are       *)
(* modelled in hundredths (0.7 is 70, 0.95 is 95).                         *)
(*                                                                         *)
(* Three specifications are defined.  Spec is CognitiveProcessor.run: the  *)
(* consume / process / publish loop, with the Kafka consumer configured in *)
(* __init__.  ComponentSpec calls the public methods of the extractor, the *)
(* mapper and the summarizer directly, and FactCheckerSpec those of one    *)
(* FactChecker, with arguments drawn from bounded sets.                    *)
(***************************************************************************)
EXTENDS Integers, Sequences, FiniteSets, TLC

(***************************************************************************)
(* Bounds of the model.                                                    *)
(***************************************************************************)
NumMsgs == 2        \* messages on the inbound topic
MaxItems == 2       \* elements in one decoded inference response
LruMaxSize == 2     \* entries an lru_cache store holds before it evicts (maxsize=1000 in the source)

(***************************************************************************)
(* Program constants.                                                      *)
(***************************************************************************)
EntityThreshold == 70          \* entity_extractor.py:180
DefaultThreshold == 70         \* causal_mapper.py:121, main.py:112
CrunchbaseExact == 95          \* fact_checker.py:71
CrunchbasePartial == 75        \* fact_checker.py:83
WikidataExact == 92            \* fact_checker.py:130
WikidataFuzzy == 80            \* fact_checker.py:141
MaxSummaryLen == 500           \* events.py:102
MinSeverity == 1               \* events.py:103
MaxSeverity == 10              \* events.py:103

(***************************************************************************)
(* Generic helpers on sequences and maps (Python list / dict semantics).   *)
(***************************************************************************)
Range(s) == {s[i] : i \in DOMAIN s}

SeqsUpTo(S, n) == UNION {[1..k -> S] : k \in 0..n}

RECURSIVE SelectIdx(_, _, _)
\* list comprehension [x for x in s if Keep(x)], by position
SelectIdx(s, keep, i) ==
    IF i > Len(s) THEN <<>>
    ELSE (IF keep[i] THEN <<s[i]>> ELSE <<>>) \o SelectIdx(s, keep, i + 1)

\* the dict replaced by b instead of updated with it
DictReplace(a, b) == b

\* dict.update: keys of b overwrite keys of a
DictUpdate(a, b) ==
    [k \in (DOMAIN a) \cup (DOMAIN b) |-> IF k \in DOMAIN b THEN b[k] ELSE a[k]]

EmptyDict == [k \in {} |-> ""]

Min(a, b) == IF a <= b THEN a ELSE b


(***************************************************************************)
(* shared/models/events.py: Entity.  A JSON object of an inference         *)
(* response is a record with the set of keys it holds and their values;    *)
(* constructing an Entity from it raises when a required key is missing   *)
(* or the confidence is outside [0, 1].                                    *)
(***************************************************************************)
EntityRequired == {"name", "type", "confidence"}

EntityParses(d) ==
    /\ EntityRequired \subseteq d.keys
    /\ d.confidence >= 0
    /\ d.confidence <= 100

\* Entity(name=..., type=..., confidence=..., metadata=...); metadata defaults to {}
MkEntity(d) ==
    [name |-> d.name, type |-> d.type, confidence |-> d.confidence,
     metadata |-> IF "metadata" \in d.keys THEN d.metadata ELSE EmptyDict]

EntityObj(n, t, c, m) ==
    [keys |-> {"name", "type", "confidence", "metadata"},
     name |-> n, type |-> t, confidence |-> c, metadata |-> m]

\* JSON objects the inference capability may list as entities
ObjTesla == EntityObj("Tesla", "company", 90, ("industry" :> "Automotive"))
ObjMusk == EntityObj("Elon Musk", "person", 98, EmptyDict)
ObjWidget == EntityObj("Widget", "product", 75, EmptyDict)
ObjWidgetSure == EntityObj("Widget", "product", 95, EmptyDict)
ObjAustin == EntityObj("Austin", "location", 70, EmptyDict)
ObjRumor == EntityObj("Rumor", "event", 60, EmptyDict)
ObjNoConfidence ==
    [keys |-> {"name", "type"}, name |-> "Nameless", type |-> "company",
     confidence |-> 0, metadata |-> EmptyDict]
ObjOverConfident == EntityObj("Hype", "company", 150, EmptyDict)

EntityObjects ==
    {ObjTesla, ObjMusk, ObjWidget, ObjAustin, ObjRumor, ObjNoConfidence, ObjOverConfident}

\* Entity values handed directly to the components
Entities == {MkEntity(d) : d \in {ObjTesla, ObjMusk, ObjWidget, ObjWidgetSure}}

(***************************************************************************)
(* shared/models/events.py: CausalRelationship.                            *)
(***************************************************************************)
RelRequired == {"subject", "action", "object", "sentiment", "confidence", "reasoning"}

\* str.upper() on the action labels used in the model
Upper(a) ==
    CASE a = "raises_rates_for" -> "RAISES_RATES_FOR"
      [] a = "Rejects" -> "REJECTS"
      [] OTHER -> a

\* the body of the per-element try block of extract_relationships
RelParses(d) ==
    /\ RelRequired \subseteq d.keys
    /\ EntityParses(d.subject)
    /\ EntityParses(d.object)
    /\ d.actionIsStr
    /\ d.sentiment >= -100 /\ d.sentiment <= 100
    /\ d.confidence >= 0 /\ d.confidence <= 100

\* line 90 without the call of upper()
MkRelationshipAsGiven(d) ==
    [subject |-> MkEntity(d.subject), action |-> d.action,
     object |-> MkEntity(d.object), sentiment |-> d.sentiment,
     confidence |-> d.confidence, reasoning |-> d.reasoning]

\* lines 88-95: CausalRelationship(subject=..., action=rel_dict["action"].upper(), ...)
MkRelationship(d) ==
    [subject |-> MkEntity(d.subject), action |-> Upper(d.action),
     object |-> MkEntity(d.object), sentiment |-> d.sentiment,
     confidence |-> d.confidence, reasoning |-> d.reasoning]

RelObj(s, a, o, sent, c) ==
    [keys |-> RelRequired, subject |-> s, action |-> a, actionIsStr |-> TRUE,
     object |-> o, sentiment |-> sent, confidence |-> c, reasoning |-> "because"]

ObjRelHigh == RelObj(ObjTesla, "raises_rates_for", ObjWidget, -80, 89)
ObjRelEdge == RelObj(ObjMusk, "Rejects", ObjTesla, 40, 70)
ObjRelLow == RelObj(ObjTesla, "ACQUIRES", ObjMusk, 10, 50)
ObjRelNoReason == [ObjRelHigh EXCEPT !.keys = RelRequired \ {"reasoning"}]
ObjRelBadSentiment == RelObj(ObjTesla, "ACQUIRES", ObjMusk, 150, 90)
\* "action": 7, a JSON number, which has no upper()
ObjRelNumericAction ==
    [RelObj(ObjTesla, "7", ObjWidget, 20, 95) EXCEPT !.actionIsStr = FALSE]

RelObjects ==
    {ObjRelHigh, ObjRelEdge, ObjRelLow, ObjRelNoReason, ObjRelBadSentiment,
     ObjRelNumericAction}

Relationships == {MkRelationship(d) : d \in {ObjRelHigh, ObjRelEdge, ObjRelLow}}

(***************************************************************************)
(* The inference capability, client.chat.completions.create: it raises, or *)
(* returns content that json.loads rejects, or content that decodes to a   *)
(* bare list, to an object holding the list under the stage's key, to an   *)
(* object without that key, or to a scalar.                                *)
(***************************************************************************)
Raised == [kind |-> "raise", items |-> <<>>]
BadJson == [kind |-> "badjson", items |-> <<>>]
Scalar == [kind |-> "scalar", items |-> <<>>]

\* no call was issued
NotAsked == [kind |-> "none", items |-> <<>>]

Responses(objects) ==
    {Raised, BadJson, Scalar}
      \cup {[kind |-> k, items |-> s] : k \in {"list", "wrapped"}, s \in SeqsUpTo(objects, MaxItems)}
      \cup {[kind |-> "object", items |-> <<o>>] : o \in objects}

(***************************************************************************)
(* entity_extractor.py: EntityExtractor.                                   *)
(***************************************************************************)
\* a JSON string met where an object is expected: it holds no key
JsonString(s) ==
    [keys |-> {}, name |-> s, type |-> "", confidence |-> 0, metadata |-> EmptyDict]

\* iterating a dict yields its keys, in insertion order
KeyOrder == <<"name", "type", "confidence", "metadata">>
ObjectKeys(o) ==
    LET present == SelectIdx(KeyOrder, [i \in DOMAIN KeyOrder |-> KeyOrder[i] \in o.keys], 1)
    IN  [i \in DOMAIN present |-> JsonString(present[i])]

\* refine_with_llm, lines 120-125: the list iterated by "for entity_dict in
\* entities_data".  An object with the "entities" key is replaced by the
\* list under it; an object without it is iterated as it is, which yields
\* its keys; a scalar cannot be iterated and the outer handler returns [].
EntityItems(resp) ==
    IF resp.kind \in {"list", "wrapped"} THEN resp.items
    ELSE IF resp.kind = "object" THEN ObjectKeys(resp.items[1])
    ELSE <<>>

\* refine_with_llm falling back, when the inference call or the decoding
\* fails, on what the tagger found (with its base confidence, line 71)
refine_or_tagger(resp) ==
    IF resp.kind \in {"raise", "badjson"}
    THEN <<[name |-> "Tesla", type |-> "company", confidence |-> 75, metadata |-> EmptyDict]>>
    ELSE IF resp.kind \in {"scalar", "object"} THEN <<>>
    ELSE LET items == EntityItems(resp)
             ok == [i \in DOMAIN items |-> EntityParses(items[i])]
             parsed == [i \in DOMAIN items |-> MkEntity(items[i])]
         IN  SelectIdx(parsed, ok, 1)

refine_with_llm(resp) ==
    IF resp.kind \in {"raise", "badjson", "scalar"} THEN <<>>
    ELSE LET items == EntityItems(resp)
             ok == [i \in DOMAIN items |-> EntityParses(items[i])]
             parsed == [i \in DOMAIN items |-> MkEntity(items[i])]
         IN  SelectIdx(parsed, ok, 1)

\* line 180 with a strict comparison
AboveThreshold(entity) == entity.confidence > EntityThreshold

\* line 180: if e.confidence >= 0.7
HighConfidence(entity) == entity.confidence >= EntityThreshold

\* extract: refine_with_llm, then the confidence filter of lines 179-181
extract(resp) ==
    LET refined == refine_with_llm(resp)
    IN  SelectIdx(refined, [i \in DOMAIN refined |-> HighConfidence(refined[i])], 1)

(***************************************************************************)
(* entity_extractor_v2.py: EnhancedEntityExtractor.                        *)
(***************************************************************************)
Backends == {"huggingface_ner", "openai", "local_llm", "hybrid"}

\* what the NER pipeline reports: name, type and score of each span
NerObj(n, t, c) ==
    [keys |-> {"name", "type", "confidence"}, name |-> n, type |-> t,
     confidence |-> c, metadata |-> EmptyDict]

NerObjects == {NerObj("Tesla", "company", 99), NerObj("Austin", "location", 55)}

\* extract_with_ner, lines 146-168: the spans found, or [] when the
\* pipeline raises
NerOutcomes == {[raised |-> r, found |-> s] : r \in BOOLEAN, s \in SeqsUpTo(NerObjects, MaxItems)}
extract_with_ner(outcome) == IF outcome.raised THEN <<>> ELSE outcome.found

\* _convert_ner_to_entities, lines 188-202
convert_ner_to_entities(ner_entities) ==
    LET ok == [i \in DOMAIN ner_entities |-> EntityParses(ner_entities[i])]
        made == [i \in DOMAIN ner_entities |->
                   [MkEntity(ner_entities[i]) EXCEPT !.metadata = EmptyDict]]
    IN  SelectIdx(made, ok, 1)

\* _call_openai lines 253-257 and _call_local_llm lines 277-283: the list
\* under "entities", the list itself, or [] for any other JSON value
EnhancedItems(resp) ==
    IF resp.kind \in {"list", "wrapped"} THEN resp.items ELSE <<>>

\* refine_with_llm of the enhanced extractor, lines 204-241: every element
\* that parses becomes an Entity; any failure of the call returns []
enhanced_refine_with_llm(resp) ==
    LET items == EnhancedItems(resp)
        ok == [i \in DOMAIN items |-> EntityParses(items[i])]
        parsed == [i \in DOMAIN items |-> MkEntity(items[i])]
    IN  SelectIdx(parsed, ok, 1)

\* EnhancedEntityExtractor.extract, lines 122-144
enhanced_extract(backend, outcome, resp) ==
    IF backend = "huggingface_ner"
    THEN convert_ner_to_entities(extract_with_ner(outcome))
    ELSE enhanced_refine_with_llm(resp)

(***************************************************************************)
(* causal_mapper.py: CausalMapper.                                         *)
(***************************************************************************)
\* the list iterated by "for rel_dict in relationships_data": an object
\* without the "relationships" key is taken as a single relationship
RelItems(resp) ==
    IF resp.kind \in {"list", "wrapped", "object"} THEN resp.items ELSE <<>>

\* the parse loop giving up on the whole response at the first element that
\* fails
ParseAllOrNothing(resp) ==
    IF resp.kind \in {"raise", "badjson", "scalar"} THEN <<>>
    ELSE IF \E i \in DOMAIN RelItems(resp) : ~RelParses(RelItems(resp)[i]) THEN <<>>
    ELSE [i \in DOMAIN RelItems(resp) |-> MkRelationship(RelItems(resp)[i])]

ParseRelationships(resp) ==
    IF resp.kind \in {"raise", "badjson", "scalar"} THEN <<>>
    ELSE LET items == RelItems(resp)
             ok == [i \in DOMAIN items |-> RelParses(items[i])]
             parsed == [i \in DOMAIN items |-> MkRelationship(items[i])]
         IN  SelectIdx(parsed, ok, 1)

\* The guard of line 44 with the comparison off by one.
TooFewEntitiesOffByOne(entities) == Len(entities) < 1

\* line 44: if len(entities) < 2
TooFewEntities(entities) == Len(entities) < 2

\* extract_relationships(article_text, entities); resp is what the inference
\* capability answers if it is called.  infer counts the calls issued.
extract_relationships(article_text, entities, resp) ==
    IF TooFewEntities(entities)
    THEN [ret |-> <<>>, infer |-> 0]
    ELSE [ret |-> ParseRelationships(resp), infer |-> 1]

\* filter_by_confidence written as removal from the list being iterated:
\* the element after each removed one is skipped.
RECURSIVE RemoveWhileIterating(_, _, _)
RemoveWhileIterating(relationships, threshold, i) ==
    IF i > Len(relationships) THEN relationships
    ELSE IF relationships[i].confidence < threshold
         THEN RemoveWhileIterating(
                  SubSeq(relationships, 1, i - 1) \o SubSeq(relationships, i + 1, Len(relationships)),
                  threshold, i + 1)
         ELSE RemoveWhileIterating(relationships, threshold, i + 1)

filter_in_place(relationships, threshold) ==
    RemoveWhileIterating(relationships, threshold, 1)

\* line 133 with a strict comparison
filter_strict(relationships, threshold) ==
    SelectIdx(relationships,
              [i \in DOMAIN relationships |-> relationships[i].confidence > threshold], 1)

\* line 133 builds a new list: the list passed in is what it was
argument_after_filter(relationships, threshold) == relationships

\* filter_by_confidence returning its argument
filter_keep_all(relationships, threshold) == relationships

\* filter_by_confidence: [r for r in relationships if r.confidence >= threshold]
filter_by_confidence(relationships, threshold) ==
    SelectIdx(relationships,
              [i \in DOMAIN relationships |-> relationships[i].confidence >= threshold], 1)

(***************************************************************************)
(* fact_checker.py: FactChecker.                                           *)
(*                                                                         *)
(* What a reference service answers to one requests.get: a 200 response    *)
(* with an exact match, with a partial (fuzzy) match, with no match, a     *)
(* non-200 status, a requests exception, or a 200 response whose matching  *)
(* entry lacks the identifier fields the code indexes (KeyError, which the *)
(* except clause for RequestException does not catch).                     *)
(***************************************************************************)
HttpOutcomes == {"exact", "partial", "empty", "non200", "exception", "malformed"}

Validated(c, m) ==
    [keys |-> {"validated", "confidence", "metadata"},
     validated |-> TRUE, confidence |-> c, reason |-> "", metadata |-> m]

NotValidated(r) ==
    [keys |-> {"validated", "reason", "metadata"},
     validated |-> FALSE, confidence |-> 0, reason |-> r, metadata |-> EmptyDict]

\* validate_company_crunchbase(company_name): called tells whether
\* requests.get was issued, raised whether an exception left the method
validate_company_crunchbase(company_name, api_key, http) ==
    IF ~api_key
    THEN [res |-> NotValidated("no_api_key"), called |-> 0, raised |-> FALSE]
    ELSE CASE http = "exact" ->
                [res |-> Validated(CrunchbaseExact,
                                   ("crunchbase_uuid" :> "uuid") @@ ("permalink" :> "perma")
                                     @@ ("short_description" :> "")),
                 called |-> 1, raised |-> FALSE]
           [] http = "partial" ->
                [res |-> Validated(CrunchbasePartial, ("partial_match" :> "True")),
                 called |-> 1, raised |-> FALSE]
           [] http \in {"empty", "non200"} ->
                [res |-> NotValidated("not_found"), called |-> 1, raised |-> FALSE]
           [] http = "exception" ->
                [res |-> NotValidated("api_error"), called |-> 1, raised |-> FALSE]
           [] OTHER ->
                [res |-> NotValidated("raised"), called |-> 1, raised |-> TRUE]

\* validate_entity_wikidata(entity_name, entity_type)
validate_entity_wikidata(entity_name, entity_type, http) ==
    CASE http = "exact" ->
           [res |-> Validated(WikidataExact,
                              ("wikidata_id" :> "Q1") @@ ("description" :> "desc")),
            called |-> 1, raised |-> FALSE]
      [] http = "partial" ->
           [res |-> Validated(WikidataFuzzy, ("fuzzy_match" :> "True")),
            called |-> 1, raised |-> FALSE]
      [] http = "empty" ->
           [res |-> NotValidated("not_found"), called |-> 1, raised |-> FALSE]
      [] http \in {"non200", "exception"} ->
           [res |-> NotValidated("api_error"), called |-> 1, raised |-> FALSE]
      [] OTHER ->
           [res |-> NotValidated("raised"), called |-> 1, raised |-> TRUE]

\* line 163: cache_key = f"{entity.name}:{entity.type}"
CacheKey(entity) == entity.name \o ":" \o entity.type

\* the types validate_entity routes to a reference service (lines 172-174)
LookedUpTypes == {"company", "person", "location", "event"}

\* validate_entity storing in the cache only the results that validated
validate_entity_cache_successes(entity, cache, api_key, http) ==
    IF CacheKey(entity) \in DOMAIN cache
    THEN [res |-> cache[CacheKey(entity)], cache |-> cache, called |-> 0, raised |-> FALSE]
    ELSE LET r == IF entity.type = "company"
                  THEN validate_company_crunchbase(entity.name, api_key, http)
                  ELSE IF entity.type \in {"person", "location", "event"}
                  THEN validate_entity_wikidata(entity.name, entity.type, http)
                  ELSE [res |-> Validated(entity.confidence, ("skipped" :> "True")),
                        called |-> 0, raised |-> FALSE]
         IN  IF r.raised
             THEN [res |-> r.res, cache |-> cache, called |-> r.called, raised |-> TRUE]
             ELSE [res |-> r.res,
                   cache |-> IF r.res.validated THEN (CacheKey(entity) :> r.res) @@ cache
                             ELSE cache,
                   called |-> r.called, raised |-> FALSE]

\* validate_entity(entity) on a FactChecker whose validation_cache is cache.
\* Returns the result, the cache afterwards, the number of external calls
\* issued and whether an exception left the method.
validate_entity(entity, cache, api_key, http) ==
    IF CacheKey(entity) \in DOMAIN cache
    THEN [res |-> cache[CacheKey(entity)], cache |-> cache, called |-> 0, raised |-> FALSE]
    ELSE LET r == IF entity.type = "company"
                  THEN validate_company_crunchbase(entity.name, api_key, http)
                  ELSE IF entity.type \in {"person", "location", "event"}
                  THEN validate_entity_wikidata(entity.name, entity.type, http)
                  ELSE [res |-> Validated(entity.confidence, ("skipped" :> "True")),
                        called |-> 0, raised |-> FALSE]
         IN  IF r.raised
             THEN [res |-> r.res, cache |-> cache, called |-> r.called, raised |-> TRUE]
             ELSE [res |-> r.res, cache |-> (CacheKey(entity) :> r.res) @@ cache,
                   called |-> r.called, raised |-> FALSE]

\* line 207 with the confidence taken from the lookup instead of the minimum
AdjustToLookup(current, returned) == returned

\* line 207: min(entity.confidence, validation_result["confidence"])
AdjustConfidence(current, returned) == Min(current, returned)

\* line 223 without the type
FlagNameOnly(entity, result) ==
    entity.name \o ": "
      \o (IF "reason" \in result.keys THEN result.reason ELSE "unknown")

\* line 223: the hallucination flag string
FlagString(entity, result) ==
    entity.name \o " (" \o entity.type \o "): "
      \o (IF "reason" \in result.keys THEN result.reason ELSE "unknown")

\* lines 222-224 with the flag inserted at the head of the list
PrependFlag(flags, entity, result) == <<FlagString(entity, result)>> \o flags

\* lines 222-224 with a membership test before the append
AppendFlagOnce(flags, entity, result) ==
    IF FlagString(entity, result) \in Range(flags) THEN flags
    ELSE Append(flags, FlagString(entity, result))

\* lines 222-224: hallucination_flags.append(...)
AppendFlag(flags, entity, result) == Append(flags, FlagString(entity, result))

\* history of a batch: the requests.get issued for entities[i] and what the
\* reference service answered
LogLookup(log, i, called, http) ==
    IF called = 0 THEN log ELSE Append(log, [pos |-> i, http |-> http])

\* One iteration of the loop of validate_batch for entities[i] on the
\* accumulated state acc; the entity is mutated in place.
ValidateStep(acc, i, api_key, http) ==
    LET entity == acc.entities[i]
        v == validate_entity(entity, acc.cache, api_key, http)
    IN  IF v.raised
        THEN [acc EXCEPT !.raised = TRUE, !.called = acc.called + v.called,
                         !.log = LogLookup(acc.log, i, v.called, http)]
        ELSE IF v.res.validated
        THEN LET adjusted ==
                   [entity EXCEPT
                      !.confidence = IF "confidence" \in v.res.keys
                                     THEN AdjustConfidence(entity.confidence, v.res.confidence)
                                     ELSE entity.confidence,
                      !.metadata = DictUpdate(entity.metadata, v.res.metadata)]
             IN  [acc EXCEPT !.entities[i] = adjusted,
                             !.validated = Append(acc.validated, adjusted),
                             !.cache = v.cache,
                             !.called = acc.called + v.called,
                             !.log = LogLookup(acc.log, i, v.called, http)]
        ELSE [acc EXCEPT !.flags = AppendFlag(acc.flags, entity, v.res),
                         !.failed = acc.failed \cup {i},
                         !.cache = v.cache,
                         !.called = acc.called + v.called,
                         !.log = LogLookup(acc.log, i, v.called, http)]

RECURSIVE ValidateFrom(_, _, _, _)
ValidateFrom(acc, i, api_key, answers) ==
    IF i > Len(acc.entities) \/ acc.raised THEN acc
    ELSE ValidateFrom(ValidateStep(acc, i, api_key, answers[i]), i + 1, api_key, answers)

\* validate_batch(entities) on a FactChecker whose validation_cache is cache;
\* answers[i] is what the reference service answers if entities[i] is looked
\* up.  Returns the entities as the call leaves them, validated_entities,
\* hallucination_flags, the positions that failed validation, the cache
\* afterwards, the number of external calls, whether the call raised, and
\* the log of the external calls.
validate_batch(entities, cache, api_key, answers) ==
    ValidateFrom([entities |-> entities, validated |-> <<>>, flags |-> <<>>,
                  failed |-> {}, cache |-> cache, called |-> 0, raised |-> FALSE,
                  log |-> <<>>],
                 1, api_key, answers)

(***************************************************************************)
(* impact_summarizer.py: ImpactSummarizer, and events.py: ImpactSummary.   *)
(***************************************************************************)
SummaryRequired == {"summary", "severity", "affected_sectors"}

\* ImpactSummary without the Field constraints of events.py lines 102-103
SummaryParsesUnchecked(d) == SummaryRequired \subseteq d.keys

\* ImpactSummary(...) validates max_length=500 and ge=1, le=10
SummaryParses(d) ==
    /\ SummaryRequired \subseteq d.keys
    /\ Len(d.summary) <= MaxSummaryLen
    /\ d.severity >= MinSeverity
    /\ d.severity <= MaxSeverity

MkImpactSummary(d) ==
    [summary |-> d.summary, severity |-> d.severity,
     affected_sectors |-> d.affected_sectors,
     key_stakeholders |-> IF "key_stakeholders" \in d.keys THEN d.key_stakeholders ELSE <<>>]

\* lines 110-115: the handler of json.JSONDecodeError
DegradedDecode ==
    [summary |-> "Unable to generate impact summary due to processing error.",
     severity |-> 1, affected_sectors |-> <<"Unknown">>, key_stakeholders |-> <<>>]

\* lines 119-124: the handler of Exception
DegradedError ==
    [summary |-> "Processing error occurred.",
     severity |-> 1, affected_sectors |-> <<"Unknown">>, key_stakeholders |-> <<>>]

\* The handler of Exception with the return forgotten after logging: the
\* model marks the exception that then leaves the method.
Propagated ==
    [summary |-> "", severity |-> 0, affected_sectors |-> <<>>, key_stakeholders |-> <<>>]

SummaryFailed(resp) ==
    \/ resp.kind # "object"
    \/ ~SummaryParses(resp.items[1])

\* generate_summary without the handler of Exception
generate_summary_unhandled(article_text, entities, relationships, resp) ==
    IF resp.kind = "badjson" THEN [ret |-> DegradedDecode, raised |-> FALSE]
    ELSE IF SummaryFailed(resp) THEN [ret |-> Propagated, raised |-> TRUE]
    ELSE [ret |-> MkImpactSummary(resp.items[1]), raised |-> FALSE]

\* generate_summary(article_text, entities, relationships); resp is what the
\* inference capability answers
generate_summary(article_text, entities, relationships, resp) ==
    IF resp.kind = "badjson" THEN [ret |-> DegradedDecode, raised |-> FALSE]
    ELSE IF SummaryFailed(resp) THEN [ret |-> DegradedError, raised |-> FALSE]
    ELSE [ret |-> MkImpactSummary(resp.items[1]), raised |-> FALSE]

SummaryObj(ks, text, sev) ==
    [keys |-> ks, summary |-> text, severity |-> sev,
     affected_sectors |-> <<"Finance">>, key_stakeholders |-> <<"Lenders">>]

AllSummaryKeys == SummaryRequired \cup {"key_stakeholders"}

Ten == "xxxxxxxxxx"
Hundred == Ten \o Ten \o Ten \o Ten \o Ten \o Ten \o Ten \o Ten \o Ten \o Ten
LongSummary == Hundred \o Hundred \o Hundred \o Hundred \o Hundred \o "x"

SummaryObjects ==
    {SummaryObj(AllSummaryKeys, "Rates rise. Lenders suffer.", 7),
     SummaryObj(SummaryRequired, "Minor news. Little impact.", 2),
     SummaryObj(AllSummaryKeys \ {"severity"}, "No severity given.", 0),
     SummaryObj(AllSummaryKeys, "Out of range.", 11),
     SummaryObj(AllSummaryKeys, LongSummary, 5)}

SummaryResponses ==
    {Raised, BadJson, Scalar, [kind |-> "list", items |-> <<>>]}
      \cup {[kind |-> "object", items |-> <<o>>] : o \in SummaryObjects}

(***************************************************************************)
(* events.py: StructuredGraphEvent, as process_article builds it.          *)
(***************************************************************************)
\* main.py lines 89-100: the minimal event of the zero-entity path; the
\* impact_summary dict is validated into an ImpactSummary
MinimalSummary ==
    [summary |-> "No significant entities or impact detected.",
     severity |-> 1, affected_sectors |-> <<>>, key_stakeholders |-> <<>>]

\* the minimal event without the fact_check_passed argument: the field's
\* default (events.py line 121) is False
MinimalEventDefaults(article_id) ==
    [article_id |-> article_id, entities |-> <<>>, relationships |-> <<>>,
     impact_summary |-> MinimalSummary,
     fact_check_passed |-> FALSE, hallucination_flags |-> <<>>]

MinimalEvent(article_id) ==
    [article_id |-> article_id, entities |-> <<>>, relationships |-> <<>>,
     impact_summary |-> MinimalSummary,
     fact_check_passed |-> TRUE, hallucination_flags |-> <<>>]

\* the relationships holding references to the entities of the extracted
\* list instead of copies: what validation does to an entity shows in every
\* relationship that names it
RelationshipsSharingEntities(relationships, before, after) ==
    LET Shared(e) ==
          IF \E i \in DOMAIN before : before[i].name = e.name /\ before[i].type = e.type
          THEN after[CHOOSE i \in DOMAIN before :
                       before[i].name = e.name /\ before[i].type = e.type]
          ELSE e
    IN  [k \in DOMAIN relationships |->
           [relationships[k] EXCEPT !.subject = Shared(@), !.object = Shared(@)]]

\* causal_mapper.py lines 89 and 91: the subject and the object of a
\* relationship are Entity objects built from the inference response, not
\* the objects of the extracted list, so validate_batch, which mutates
\* those (fact_checker.py lines 207 and 210), leaves the relationships as
\* they were
RelationshipsAfterValidation(relationships, before, after) == relationships

\* main.py line 134 with the extracted list passed instead of the validated one
SummaryRawEntities(entities, validated_entities) == entities

\* main.py lines 132-136: the entity list handed to generate_summary
SummaryEntities(entities, validated_entities) == validated_entities

\* main.py line 119 with the flag hard-wired
AlwaysPassed(hallucination_flags) == TRUE

\* main.py line 119: fact_check_passed = len(hallucination_flags) == 0
FactCheckPassed(hallucination_flags) == Len(hallucination_flags) = 0

(***************************************************************************)
(* State.                                                                  *)
(***************************************************************************)
VARIABLES
    feed,                \* the inbound topic partition: feed[k] is the message at offset k
    committed,           \* the consumer group's committed offset (the next offset delivered after a restart)
    outbound,            \* the outbound topic: for each published event, its article_id and the offset of the message it was built from
    pc,                  \* where run() is: poll, parse, extract, relate, filter, validate, summarize, publish, stopped, down
    position,            \* the consumer's position: the next offset the iterator yields
    cur,                 \* the offset of the message being handled
    entities,            \* process_article locals
    relationships,
    validated_entities,
    hallucination_flags,
    fact_check_passed,
    structured_event,    \* the event process_article returned
    validation_cache,    \* FactChecker.validation_cache
    crunchbase_api_key,  \* whether settings.crunchbase_api_key is set
    stages,              \* history: the stages called for the current message, in order
    calls,               \* history: for each of those stages, what it was passed and what it returned
    infer_calls,         \* history: inference calls issued for the current message
    dropped,             \* history: offsets skipped by the per-message handler
    halted,              \* why run() ended: none, interrupt, error
    raised_in,           \* history: where the exception was raised that the per-message handler of run() caught last
    call,                \* direct calls: the last call, its arguments and what it returned
    lookups,             \* direct calls, history: the requests issued by the FactChecker (name, type, kind of answer)
    instance_cache,      \* several processors: the validation_cache of each one's FactChecker
    lru_store,           \* several processors: the stores of the two lru_cache decorators, in order of use
    at,                  \* several processors: where each one's validate_entity is
    requested            \* several processors, history: the external lookups each one issued

locals == <<entities, relationships, validated_entities, hallucination_flags,
            fact_check_passed, structured_event>>
kafka == <<feed, committed, outbound, position, cur>>
history == <<stages, calls, infer_calls, dropped, halted, raised_in>>
fleet == <<instance_cache, lru_store, at, requested>>
component == <<call, lookups, fleet>>
vars == <<kafka, pc, locals, validation_cache, crunchbase_api_key, history, component>>

\* Offsets of the inbound messages whose event reached the outbound topic.
published == {e.offset : e \in outbound}

(***************************************************************************)
(* The inbound messages: an article, a JSON value that RawArticleEvent     *)
(* rejects, or bytes the value_deserializer (json.loads of the decoded     *)
(* bytes, main.py line 45) rejects.                                        *)
(***************************************************************************)
MessageKinds == {"article", "bad_schema", "bad_bytes"}

\* the article_id and content of the message at offset k
ArticleId(k) == "a" \o ToString(k)
Content(k) == "text"

NoEvent == [article_id |-> ""]
NoCall == [op |-> "none"]

\* The processors of a scale-out, each constructed with its own FactChecker
\* (main.py line 38), whose validation_cache starts empty (fact_checker.py
\* line 34).  The two lru_cache decorators (lines 36 and 93) each keep one
\* store for the class, empty when the module is loaded.
Instances == {"A", "B"}

Methods == {"validate_company_crunchbase", "validate_entity_wikidata"}

Idle == [step |-> "idle"]

FleetInit ==
    /\ instance_cache = [i \in Instances |-> EmptyDict]
    /\ lru_store = [m \in Methods |-> <<>>]
    /\ at = [i \in Instances |-> Idle]
    /\ requested = {}

ResetLocals ==
    /\ entities' = <<>>
    /\ relationships' = <<>>
    /\ validated_entities' = <<>>
    /\ hallucination_flags' = <<>>
    /\ fact_check_passed' = FALSE
    /\ structured_event' = NoEvent

Init ==
    /\ feed \in [1..NumMsgs -> MessageKinds]
    /\ committed = 1
    /\ outbound = {}
    /\ pc = "poll"
    /\ position = 1
    /\ cur = 0
    /\ entities = <<>>
    /\ relationships = <<>>
    /\ validated_entities = <<>>
    /\ hallucination_flags = <<>>
    /\ fact_check_passed = FALSE
    /\ structured_event = NoEvent
    /\ validation_cache = EmptyDict
    /\ crunchbase_api_key \in BOOLEAN
    /\ stages = <<>>
    /\ calls = <<>>
    /\ infer_calls = 0
    /\ dropped = {}
    /\ halted = "none"
    /\ raised_in = "none"
    /\ call = NoCall
    /\ lookups = {}
    /\ FleetInit

(***************************************************************************)
(* main.py: CognitiveProcessor.run, one action per step of the loop.       *)
(*                                                                         *)
(* The consumer is created with enable_auto_commit=True and run() never    *)
(* commits itself.  With that setting the kafka-python consumer commits    *)
(* its position (the offset after the last message the iterator yielded)   *)
(* from inside its own calls: when the iterator fetches, if the commit     *)
(* interval has elapsed, and in close().                                   *)
(***************************************************************************)
Running == pc \in {"poll", "parse", "extract", "relate", "filter", "validate",
                   "summarize", "publish"}

\* What the inference capability and the reference services answer inside
\* run().  The direct calls of the components take every response up to
\* MaxItems elements; the loop takes these, one for each way a stage can
\* end: failure, nothing usable, one entity, two entities, an element that
\* does not parse beside one that does.
RunEntityResponses ==
    {Raised, BadJson}
      \cup {[kind |-> "list", items |-> s] :
              s \in {<<>>, <<ObjRumor>>, <<ObjTesla>>, <<ObjTesla, ObjWidget>>,
                      <<ObjNoConfidence, ObjWidget>>}}
      \cup {[kind |-> "wrapped", items |-> <<ObjWidget, ObjTesla>>]}
RunRelResponses ==
    {Raised, BadJson}
      \cup {[kind |-> "list", items |-> s] :
              s \in {<<>>, <<ObjRelEdge>>, <<ObjRelHigh, ObjRelLow>>,
                      <<ObjRelNoReason, ObjRelHigh>>}}
      \cup {[kind |-> "wrapped", items |-> <<ObjRelLow>>]}
RunHttpOutcomes == {"exact", "empty", "malformed"}
RunSummaryResponses ==
    {Raised, BadJson}
      \cup {[kind |-> "object", items |-> <<o>>] :
              o \in {SummaryObj(AllSummaryKeys, "Rates rise. Lenders suffer.", 7),
                     SummaryObj(AllSummaryKeys, "Out of range.", 11),
                     SummaryObj(AllSummaryKeys, LongSummary, 5)}}

\* history: what the inference capability answered to the summarizer
SummaryAnswer(resp) ==
    IF resp.kind # "object" THEN resp.kind
    ELSE IF ~(SummaryRequired \subseteq resp.items[1].keys) THEN "missing_field"
    ELSE IF \/ Len(resp.items[1].summary) > MaxSummaryLen
            \/ resp.items[1].severity < MinSeverity
            \/ resp.items[1].severity > MaxSeverity
         THEN "out_of_range"
    ELSE "in_range"

\* the auto-commit a consumer call may perform
AutoCommit == committed' \in {committed, position}

\* the handler running the pipeline again on the same message
RetryMessage ==
    /\ dropped' = dropped
    /\ raised_in' = pc
    /\ pc' = "extract"
    /\ stages' = <<>>
    /\ calls' = <<>>
    /\ infer_calls' = 0
    /\ ResetLocals

\* lines 223-226: except Exception: log, continue
SkipMessage ==
    /\ dropped' = dropped \cup {cur}
    /\ raised_in' = pc
    /\ pc' = "poll"
    /\ stages' = <<>>
    /\ calls' = <<>>
    /\ infer_calls' = 0
    /\ ResetLocals

\* the loop taking the next message while the event of the current one is
\* still to be published
PollBeforePublish ==
    /\ pc \in {"poll", "publish"}
    /\ position <= NumMsgs
    /\ feed[position] # "bad_bytes"
    /\ AutoCommit
    /\ cur' = position
    /\ position' = position + 1
    /\ pc' = "parse"
    /\ raised_in' = "none"
    /\ UNCHANGED <<feed, outbound, locals, validation_cache, crunchbase_api_key,
                   stages, calls, infer_calls, dropped, halted, component>>

\* line 211: the iterator yields the next message
PollMessage ==
    /\ pc = "poll"
    /\ position <= NumMsgs
    /\ feed[position] # "bad_bytes"
    /\ AutoCommit
    /\ cur' = position
    /\ position' = position + 1
    /\ pc' = "parse"
    /\ raised_in' = "none"
    /\ UNCHANGED <<feed, outbound, locals, validation_cache, crunchbase_api_key,
                   stages, calls, infer_calls, dropped, halted, component>>

\* the process is gone: its memory (the consumer's position, the
\* FactChecker and the locals of run) with it
ProcessGone ==
    /\ position' = committed'
    /\ raised_in' = "none"
    /\ cur' = 0
    /\ validation_cache' = EmptyDict
    /\ stages' = <<>>
    /\ calls' = <<>>
    /\ infer_calls' = 0
    /\ ResetLocals

\* line 211 with line 45: the value_deserializer raises inside the iterator,
\* outside the inner try; no except clause of the outer try matches, the
\* finally block closes the consumer and the exception leaves run()
PollUndecodable ==
    /\ pc = "poll"
    /\ position <= NumMsgs
    /\ feed[position] = "bad_bytes"
    /\ AutoCommit
    /\ pc' = "stopped"
    /\ halted' = "error"
    /\ ProcessGone
    /\ UNCHANGED <<feed, outbound, crunchbase_api_key, dropped, component>>

\* lines 214-215: RawArticleEvent(**raw_event_data)
ParseMessage ==
    /\ pc = "parse"
    /\ IF feed[cur] = "bad_schema"
       THEN SkipMessage
       ELSE /\ pc' = "extract"
            /\ UNCHANGED <<locals, dropped, stages, calls, infer_calls, raised_in>>
    /\ UNCHANGED <<kafka, validation_cache, crunchbase_api_key,
                   halted, component>>

\* lines 84-100: step 1 and the zero-entity return.  The tagger pass
\* (extract_with_spacy) is not inside any try of the extractor.
ExtractEntities ==
    /\ pc = "extract"
    /\ \E tagger \in {"ok", "raise"}, resp \in RunEntityResponses :
         IF tagger = "raise"
         THEN SkipMessage
         ELSE /\ stages' = Append(stages, "extract")
              /\ calls' = Append(calls, [stage |-> "extract", answer |-> resp.kind,
                                         ret |-> extract(resp)])
              /\ infer_calls' = infer_calls + 1
              /\ dropped' = dropped
              /\ raised_in' = raised_in
              /\ entities' = extract(resp)
              /\ IF entities' = <<>>
                 THEN /\ structured_event' = MinimalEvent(ArticleId(cur))
                      /\ pc' = "publish"
                 ELSE /\ structured_event' = structured_event
                      /\ pc' = "relate"
              /\ UNCHANGED <<relationships, validated_entities, hallucination_flags,
                             fact_check_passed>>
    /\ UNCHANGED <<kafka, validation_cache, crunchbase_api_key, halted, component>>

\* lines 104-107: step 2
MapRelationships ==
    /\ pc = "relate"
    /\ stages' = Append(stages, "relate")
    /\ \E resp \in RunRelResponses :
         \E r \in {extract_relationships(Content(cur), entities, resp)} :
             /\ relationships' = r.ret
             /\ infer_calls' = infer_calls + r.infer
             /\ calls' = Append(calls, [stage |-> "relate",
                                        answer |-> IF r.infer = 0 THEN "none" ELSE resp.kind,
                                        entities |-> entities, ret |-> r.ret])
    /\ pc' = "filter"
    /\ UNCHANGED <<kafka, entities, validated_entities, hallucination_flags,
                   fact_check_passed, structured_event, validation_cache,
                   crunchbase_api_key, dropped, halted, raised_in, component>>

\* lines 110-113
FilterRelationships ==
    /\ pc = "filter"
    /\ stages' = Append(stages, "filter")
    /\ relationships' = filter_by_confidence(relationships, DefaultThreshold)
    /\ calls' = Append(calls, [stage |-> "filter", relationships |-> relationships,
                               threshold |-> DefaultThreshold, ret |-> relationships'])
    /\ pc' = "validate"
    /\ UNCHANGED <<kafka, entities, validated_entities, hallucination_flags,
                   fact_check_passed, structured_event, validation_cache,
                   crunchbase_api_key, infer_calls, dropped, halted, raised_in, component>>

\* lines 117-119: step 3
ValidateEntities ==
    /\ pc = "validate"
    /\ \E answers \in [1..Len(entities) -> RunHttpOutcomes] :
         \E v \in {validate_batch(entities, validation_cache, crunchbase_api_key, answers)} :
             /\ validation_cache' = v.cache
             /\ IF v.raised
                THEN SkipMessage
                ELSE /\ stages' = Append(stages, "validate")
                     /\ calls' = Append(calls, [stage |-> "validate", entities |-> entities,
                                                ret |-> [validated |-> v.validated,
                                                         flags |-> v.flags]])
                     /\ entities' = v.entities
                     /\ validated_entities' = v.validated
                     /\ hallucination_flags' = v.flags
                     /\ fact_check_passed' = FactCheckPassed(v.flags)
                     /\ relationships' =
                          RelationshipsAfterValidation(relationships, entities, v.entities)
                     /\ pc' = "summarize"
                     /\ UNCHANGED <<structured_event, dropped, infer_calls, raised_in>>
    /\ UNCHANGED <<kafka, crunchbase_api_key, halted, component>>

\* lines 132-162: step 4, then the event is built and returned
Summarize ==
    /\ pc = "summarize"
    /\ \E resp \in RunSummaryResponses :
         \E s \in {generate_summary(Content(cur),
                                    SummaryEntities(entities, validated_entities),
                                    relationships, resp)} :
             IF s.raised
             THEN SkipMessage
             ELSE /\ stages' = Append(stages, "summarize")
                  /\ calls' = Append(calls, [stage |-> "summarize",
                                             answer |-> SummaryAnswer(resp),
                                             entities |-> SummaryEntities(entities,
                                                                          validated_entities),
                                             relationships |-> relationships,
                                             ret |-> s.ret])
                  /\ infer_calls' = infer_calls + 1
                  /\ structured_event' =
                       [article_id |-> ArticleId(cur),
                        entities |-> validated_entities,
                        relationships |-> relationships,
                        impact_summary |-> s.ret,
                        fact_check_passed |-> fact_check_passed,
                        hallucination_flags |-> hallucination_flags]
                  /\ pc' = "publish"
                  /\ UNCHANGED <<entities, relationships, validated_entities,
                                 hallucination_flags, fact_check_passed, dropped, raised_in>>
    /\ UNCHANGED <<kafka, validation_cache, crunchbase_api_key, halted, component>>

\* the event going out while process_article is still at its last stage
PublishEarly ==
    /\ pc \in {"summarize", "publish"}
    /\ \E confirmed \in BOOLEAN :
         IF confirmed
         THEN /\ outbound' = outbound \cup {[offset |-> cur,
                                            article_id |-> structured_event.article_id]}
              /\ pc' = "poll"
              /\ stages' = <<>>
              /\ calls' = <<>>
              /\ infer_calls' = 0
              /\ ResetLocals
              /\ UNCHANGED <<dropped, raised_in>>
         ELSE /\ SkipMessage
              /\ UNCHANGED outbound
    /\ UNCHANGED <<feed, committed, position, cur, validation_cache, crunchbase_api_key,
                   halted, component>>

\* lines 171-202 and 221: producer.send and future.get(timeout=10); a
\* KafkaError is re-raised to the handler of run()
Publish ==
    /\ pc = "publish"
    /\ \E confirmed \in BOOLEAN :
         IF confirmed
         THEN /\ outbound' = outbound \cup {[offset |-> cur,
                                            article_id |-> structured_event.article_id]}
              /\ pc' = "poll"
              /\ stages' = <<>>
              /\ calls' = <<>>
              /\ infer_calls' = 0
              /\ ResetLocals
              /\ UNCHANGED <<dropped, raised_in>>
         ELSE /\ SkipMessage
              /\ UNCHANGED outbound
    /\ UNCHANGED <<feed, committed, position, cur, validation_cache, crunchbase_api_key,
                   halted, component>>

\* lines 228-234: KeyboardInterrupt anywhere in the loop, then the finally
\* block: consumer.close() commits the position
Interrupt ==
    /\ Running
    /\ AutoCommit
    /\ pc' = "stopped"
    /\ halted' = "interrupt"
    /\ ProcessGone
    /\ UNCHANGED <<feed, outbound, crunchbase_api_key, dropped, component>>

\* the process is killed: nothing of run() executes any more
Crash ==
    /\ Running
    /\ pc' = "down"
    /\ committed' = committed
    /\ ProcessGone
    /\ UNCHANGED <<feed, outbound, crunchbase_api_key, dropped, halted, component>>

\* lines 31-59 and 238-239: a new process, a new consumer of the same group
\* (it resumes at the committed offset) and a new FactChecker
Restart ==
    /\ pc \in {"stopped", "down"}
    /\ pc' = "poll"
    /\ position' = committed
    /\ cur' = 0
    /\ validation_cache' = EmptyDict
    /\ halted' = "none"
    /\ UNCHANGED <<feed, committed, outbound, locals, crunchbase_api_key, stages,
                   calls, infer_calls, dropped, raised_in, component>>

Next ==
    \/ PollMessage
    \/ PollUndecodable
    \/ ParseMessage
    \/ ExtractEntities
    \/ MapRelationships
    \/ FilterRelationships
    \/ ValidateEntities
    \/ Summarize
    \/ Publish
    \/ Interrupt
    \/ Crash
    \/ Restart

Spec == Init /\ [][Next]_vars

\* run() left alone: no KeyboardInterrupt and no kill of the process.  run()
\* is one thread, so its next statement is executed whenever there is one:
\* a call that returns or raises is a step of the stage that made it, and
\* the iterator of line 211 blocks only while the feed holds nothing more.
RunNext ==
    \/ PollMessage
    \/ PollUndecodable
    \/ ParseMessage
    \/ ExtractEntities
    \/ MapRelationships
    \/ FilterRelationships
    \/ ValidateEntities
    \/ Summarize
    \/ Publish

\* run() has a statement to execute: the iterator has a message to yield,
\* or a document is in process (this is ENABLED RunNext)
CanStep ==
    \/ pc = "poll" /\ position <= NumMsgs
    \/ pc \in {"parse", "extract", "relate", "filter", "validate", "summarize", "publish"}

\* run() moves on: every step of RunNext changes pc, and in a behaviour of
\* RunNext nothing else does, so weak fairness of Advance is weak fairness
\* of RunNext
Advance ==
    /\ CanStep
    /\ pc' \in {"poll", "parse", "extract", "relate", "filter", "validate",
                "summarize", "publish", "stopped"}
    /\ pc' # pc

FairSpec == Init /\ [][RunNext]_vars /\ WF_pc(Advance)

(***************************************************************************)
(* ComponentSpec and FactCheckerSpec: the stage components called         *)
(* directly, as their __main__ examples do, on one CausalMapper, one       *)
(* EntityExtractor and one ImpactSummarizer, and on one FactChecker, which *)
(* keeps its validation_cache from call to call.                           *)
(***************************************************************************)
Thresholds == {0, 50, 70, 89, 90, 100}

run_state == <<kafka, pc, locals, history>>

ComponentInit ==
    /\ feed = [k \in 1..NumMsgs |-> "article"]
    /\ committed = 1
    /\ outbound = {}
    /\ pc = "poll"
    /\ position = 1
    /\ cur = 0
    /\ entities = <<>>
    /\ relationships = <<>>
    /\ validated_entities = <<>>
    /\ hallucination_flags = <<>>
    /\ fact_check_passed = FALSE
    /\ structured_event = NoEvent
    /\ validation_cache = EmptyDict
    /\ crunchbase_api_key \in BOOLEAN
    /\ stages = <<>>
    /\ calls = <<>>
    /\ infer_calls = 0
    /\ dropped = {}
    /\ halted = "none"
    /\ raised_in = "none"
    /\ call = NoCall
    /\ lookups = {}
    /\ FleetInit

\* EntityExtractor.extract(article_text)
CallExtract ==
    /\ call = NoCall
    /\ \E resp \in Responses(EntityObjects) :
         call' = [op |-> "extract", resp |-> resp, handed |-> EntityItems(resp),
                  refined |-> refine_with_llm(resp),
                  ret |-> extract(resp)]
    /\ UNCHANGED <<run_state, validation_cache, crunchbase_api_key, lookups, fleet>>

\* EntityExtractor.extract(article_text, threshold=t): extract takes
\* article_text alone (line 162) and compares with the literal 0.7 (line
\* 180), so the call raises TypeError before the body runs and no inference
\* call is issued
CallExtractWithThreshold ==
    /\ call = NoCall
    /\ \E t \in Thresholds :
         call' = [op |-> "extract_with_threshold", threshold |-> t, resp |-> NotAsked,
                  refined |-> <<>>, ret |-> <<>>, raised |-> TRUE]
    /\ UNCHANGED <<run_state, validation_cache, crunchbase_api_key, lookups, fleet>>

\* CausalMapper.extract_relationships(article_text, entities)
CallExtractRelationships ==
    /\ call = NoCall
    /\ \E ents \in SeqsUpTo({MkEntity(ObjTesla), MkEntity(ObjWidget)}, MaxItems),
          resp \in Responses(RelObjects) :
         \E r \in {extract_relationships("text", ents, resp)} :
             call' = [op |-> "extract_relationships", entities |-> ents,
                      resp |-> IF r.infer = 0 THEN NotAsked ELSE resp,
                      handed |-> IF r.infer = 0 THEN <<>> ELSE RelItems(resp),
                      ret |-> r.ret, infer |-> r.infer]
    /\ UNCHANGED <<run_state, validation_cache, crunchbase_api_key, lookups, fleet>>

\* CausalMapper.filter_by_confidence(relationships, threshold)
CallFilterByConfidence ==
    /\ call = NoCall
    /\ \E rels \in SeqsUpTo(Relationships, MaxItems), t \in Thresholds :
         call' = [op |-> "filter_by_confidence", original |-> rels,
                  relationships |-> rels, threshold |-> t,
                  again |-> FALSE, ret |-> filter_by_confidence(rels, t),
                  after |-> argument_after_filter(rels, t)]
    /\ UNCHANGED <<run_state, validation_cache, crunchbase_api_key, lookups, fleet>>

\* filter_by_confidence applied to what the last filter_by_confidence
\* returned, with the same threshold
CallFilterAgain ==
    /\ call.op = "filter_by_confidence"
    /\ ~call.again
    /\ call' = [op |-> "filter_by_confidence", original |-> call.original,
                relationships |-> call.ret,
                threshold |-> call.threshold, again |-> TRUE,
                ret |-> filter_by_confidence(call.ret, call.threshold),
                after |-> argument_after_filter(call.ret, call.threshold)]
    /\ UNCHANGED <<run_state, validation_cache, crunchbase_api_key, lookups, fleet>>

\* history: a match, no match, a transport-level failure (non-200 status or
\* requests exception), or an exception that left the validator
AnswerKind(http) ==
    CASE http \in {"exact", "partial"} -> "match"
      [] http = "empty" -> "no_match"
      [] http \in {"non200", "exception"} -> "transport"
      [] OTHER -> "raised"

\* entities[i] can reach requests.get: its type is routed to a reference
\* service, the company registry has its key, and neither the cache nor an
\* earlier entity of the batch holds its cache key
MayLookUp(ents, i, cache, api_key) ==
    /\ ents[i].type \in LookedUpTypes
    /\ ents[i].type = "company" => api_key
    /\ CacheKey(ents[i]) \notin DOMAIN cache
    /\ \A j \in 1..(i - 1) : CacheKey(ents[j]) # CacheKey(ents[i])

\* what the reference services answer to a batch: answers[i] is the answer
\* to the request for entities[i]; the services answer only what they are
\* asked
Answers(ents, cache, api_key) ==
    {a \in [1..Len(ents) -> HttpOutcomes] :
       \A i \in 1..Len(ents) : ~MayLookUp(ents, i, cache, api_key) => a[i] = "empty"}

\* FactChecker.validate_batch(entities)
CallValidateBatch ==
    /\ call = NoCall
    /\ \E ents \in SeqsUpTo(Entities, MaxItems) :
         \E answers \in Answers(ents, validation_cache, crunchbase_api_key) :
           \E v \in {validate_batch(ents, validation_cache, crunchbase_api_key, answers)} :
               /\ validation_cache' = v.cache
               /\ lookups' = lookups \cup
                               {[name |-> ents[v.log[k].pos].name,
                                 type |-> ents[v.log[k].pos].type,
                                 answer |-> AnswerKind(v.log[k].http)] : k \in 1..Len(v.log)}
               /\ call' = [op |-> "validate_batch", entities |-> ents,
                           after |-> v.entities, validated |-> v.validated,
                           flags |-> v.flags, failed |-> v.failed,
                           called |-> v.called, raised |-> v.raised,
                           before |-> validation_cache, earlier |-> lookups,
                           log |-> v.log,
                           hits |-> {i \in 1..Len(ents) :
                                       CacheKey(ents[i]) \in DOMAIN validation_cache}]
    /\ UNCHANGED <<run_state, crunchbase_api_key, fleet>>

\* Entity.type is a plain str (events.py line 54): names and types that hold
\* the separator of the cache key
ColonEntities ==
    {[name |-> "Apollo:mission", type |-> "event", confidence |-> 90, metadata |-> EmptyDict],
     [name |-> "Apollo", type |-> "mission:event", confidence |-> 80, metadata |-> EmptyDict],
     [name |-> "Acme:holding", type |-> "company", confidence |-> 90, metadata |-> EmptyDict],
     [name |-> "Acme", type |-> "holding:company", confidence |-> 80, metadata |-> EmptyDict]}

\* fact_checker.py lines 240-258: a new FactChecker and one validate_batch
CallValidateBatchOnce ==
    /\ call = NoCall
    /\ \E ents \in SeqsUpTo(ColonEntities, MaxItems) :
         \E answers \in Answers(ents, EmptyDict, crunchbase_api_key) :
           \E v \in {validate_batch(ents, EmptyDict, crunchbase_api_key, answers)} :
               call' = [op |-> "validate_batch_once", entities |-> ents,
                        after |-> v.entities, validated |-> v.validated,
                        flags |-> v.flags, called |-> v.called, raised |-> v.raised,
                        cache |-> v.cache, log |-> v.log]
    /\ UNCHANGED <<run_state, validation_cache, crunchbase_api_key, lookups, fleet>>

\* ImpactSummarizer.generate_summary(article_text, entities, relationships)
CallGenerateSummary ==
    /\ call = NoCall
    /\ \E resp \in SummaryResponses :
         \E s \in {generate_summary("text", <<>>, <<>>, resp)} :
             call' = [op |-> "generate_summary", resp |-> resp,
                      ret |-> s.ret, raised |-> s.raised]
    /\ UNCHANGED <<run_state, validation_cache, crunchbase_api_key, lookups, fleet>>

\* EnhancedEntityExtractor(backend).extract(article_text): the NER pipeline
\* runs in the NER-only and hybrid modes, the inference call in every mode
\* but NER-only
CallEnhancedExtract ==
    /\ call = NoCall
    /\ \E backend \in Backends :
         \E outcome \in (IF backend \in {"huggingface_ner", "hybrid"}
                          THEN NerOutcomes ELSE {[raised |-> FALSE, found |-> <<>>]}),
            resp \in (IF backend = "huggingface_ner"
                       THEN {NotAsked} ELSE Responses(EntityObjects)) :
           call' = [op |-> "enhanced_extract", backend |-> backend,
                    ner |-> extract_with_ner(outcome), resp |-> resp,
                    ret |-> enhanced_extract(backend, outcome, resp)]
    /\ UNCHANGED <<run_state, validation_cache, crunchbase_api_key, lookups, fleet>>

\* the caller is done with what the call returned
Return ==
    /\ call # NoCall
    /\ call' = NoCall
    /\ UNCHANGED <<run_state, validation_cache, crunchbase_api_key, lookups, fleet>>

\* the extractor, the mapper and the summarizer keep nothing between calls,
\* and neither does a FactChecker that is constructed for one call
ComponentNext ==
    \/ CallExtract
    \/ CallExtractWithThreshold
    \/ CallEnhancedExtract
    \/ CallExtractRelationships
    \/ CallFilterByConfidence
    \/ CallFilterAgain
    \/ CallValidateBatchOnce
    \/ CallGenerateSummary
    \/ Return

\* one FactChecker, called again and again
FactCheckerNext ==
    \/ CallValidateBatch
    \/ Return

ComponentSpec == ComponentInit /\ [][ComponentNext]_vars

FactCheckerSpec == ComponentInit /\ [][FactCheckerNext]_vars

(***************************************************************************)
(* InstancesSpec: several CognitiveProcessor instances side by side, each  *)
(* with its own FactChecker, their validate_entity calls interleaved step  *)
(* by step.  validate_company_crunchbase and validate_entity_wikidata are  *)
(* wrapped by functools.lru_cache, which keeps for each decorated function *)
(* one store shared by every instance of the class; self is one of the     *)
(* arguments the store is keyed by.                                        *)
(***************************************************************************)
InstanceEntities == {MkEntity(d) : d \in {ObjTesla, ObjMusk, ObjAustin}}

InstanceHttpOutcomes == {"exact", "malformed"}

\* validate_entity lines 172-175: the decorated method the type is routed to
Method(entity) ==
    IF entity.type = "company" THEN "validate_company_crunchbase"
    ELSE "validate_entity_wikidata"

\* the store keyed by the arguments without self
LruKeyWithoutSelf(inst, entity) ==
    IF entity.type = "company" THEN <<"", entity.name>>
    ELSE <<"", entity.name, entity.type>>

\* lru_cache keys an entry by the call's arguments: (self, company_name),
\* (self, entity_name, entity_type)
LruKey(inst, entity) ==
    IF entity.type = "company" THEN <<inst, entity.name>>
    ELSE <<inst, entity.name, entity.type>>

LruHit(store, key) == \E k \in DOMAIN store : store[k].key = key

LruGet(store, key) == store[CHOOSE k \in DOMAIN store : store[k].key = key].res

\* a hit makes the entry the most recently used
LruTouch(store, key) ==
    LET k == CHOOSE j \in DOMAIN store : store[j].key = key
    IN  SubSeq(store, 1, k - 1) \o SubSeq(store, k + 1, Len(store)) \o <<store[k]>>

\* a miss that returned stores the result and, when the store is full,
\* evicts the least recently used entry
LruPut(store, key, res) ==
    LET added == Append(store, [key |-> key, res |-> res])
    IN  IF Len(added) > LruMaxSize THEN Tail(added) ELSE added

\* validate_entity lines 163-167: the cache key and the cache check
CheckCache(i) ==
    /\ at[i] = Idle
    /\ \E entity \in InstanceEntities :
         at' = [at EXCEPT ![i] =
                  IF CacheKey(entity) \in DOMAIN instance_cache[i]
                  THEN [step |-> "return", entity |-> entity,
                        res |-> instance_cache[i][CacheKey(entity)], hit |-> TRUE]
                  ELSE [step |-> "route", entity |-> entity]]
    /\ UNCHANGED <<run_state, validation_cache, crunchbase_api_key, call, lookups,
                   instance_cache, lru_store, requested>>

\* lines 172-175: the call of the decorated validator.  The wrapper answers
\* from its store on a hit; on a miss it runs the method and stores what it
\* returned, nothing when it raised.
CallValidator(i) ==
    /\ at[i].step = "route"
    /\ \E entity \in {at[i].entity} :
         IF LruHit(lru_store[Method(entity)], LruKey(i, entity))
         THEN /\ lru_store' = [lru_store EXCEPT ![Method(entity)] =
                                 LruTouch(@, LruKey(i, entity))]
              /\ at' = [at EXCEPT ![i] =
                          [step |-> "store", entity |-> entity,
                           res |-> LruGet(lru_store[Method(entity)], LruKey(i, entity))]]
              /\ UNCHANGED requested
         ELSE \E http \in InstanceHttpOutcomes :
                \E r \in {IF entity.type = "company"
                          THEN validate_company_crunchbase(entity.name, crunchbase_api_key, http)
                          ELSE validate_entity_wikidata(entity.name, entity.type, http)} :
                    /\ requested' = IF r.called = 1
                                    THEN requested \cup {[inst |-> i, name |-> entity.name,
                                                          type |-> entity.type]}
                                    ELSE requested
                    /\ IF r.raised
                       THEN /\ at' = [at EXCEPT ![i] = Idle]
                            /\ UNCHANGED lru_store
                       ELSE /\ at' = [at EXCEPT ![i] =
                                        [step |-> "store", entity |-> entity, res |-> r.res]]
                            /\ lru_store' = [lru_store EXCEPT ![Method(entity)] =
                                               LruPut(@, LruKey(i, entity), r.res)]
    /\ UNCHANGED <<run_state, validation_cache, crunchbase_api_key, call, lookups,
                   instance_cache>>

\* line 181: self.validation_cache[cache_key] = result
StoreResult(i) ==
    /\ at[i].step = "store"
    /\ instance_cache' = [instance_cache EXCEPT ![i] =
                            (CacheKey(at[i].entity) :> at[i].res) @@ @]
    /\ at' = [at EXCEPT ![i] = [step |-> "return", entity |-> at[i].entity,
                                res |-> at[i].res, hit |-> FALSE]]
    /\ UNCHANGED <<run_state, validation_cache, crunchbase_api_key, call, lookups,
                   lru_store, requested>>

\* lines 167 and 186: return
ReturnResult(i) ==
    /\ at[i].step = "return"
    /\ at' = [at EXCEPT ![i] = Idle]
    /\ UNCHANGED <<run_state, validation_cache, crunchbase_api_key, call, lookups,
                   instance_cache, lru_store, requested>>

InstancesNext ==
    \E i \in Instances :
      \/ CheckCache(i)
      \/ CallValidator(i)
      \/ StoreResult(i)
      \/ ReturnResult(i)

InstancesSpec == ComponentInit /\ [][InstancesNext]_vars

(***************************************************************************)
(* Properties.                                                             *)
(***************************************************************************)

\* C1: extract_relationships called with fewer than 2 entities (0 or 1)
\* returns an empty list and issues no call to the inference capability.
C1_NoInferenceBelowTwoEntities ==
    (call.op = "extract_relationships" /\ Len(call.entities) < 2)
      => (call.ret = <<>> /\ call.infer = 0)

C1_Witness ==
    /\ call.op = "extract_relationships"
    /\ Len(call.entities) = 1
    /\ call.infer = 0

\* C2: when entity extraction yields zero entities, process_article returns
\* the minimal event (no entities, no relationships, fact_check_passed true,
\* no flags, the fixed severity-1 summary) and the relationship, validation
\* and summarization stages are not called for that document.
C2_ZeroEntityMinimalResult ==
    /\ (pc = "publish" /\ entities = <<>>) =>
         /\ structured_event.article_id = ArticleId(cur)
         /\ structured_event.entities = <<>>
         /\ structured_event.relationships = <<>>
         /\ structured_event.fact_check_passed = TRUE
         /\ structured_event.hallucination_flags = <<>>
         /\ structured_event.impact_summary.severity = 1
         /\ structured_event.impact_summary.summary
              = "No significant entities or impact detected."
         /\ stages = <<"extract">>
         /\ infer_calls = 1
    /\ pc \in {"relate", "filter", "validate", "summarize"} => entities # <<>>

C2_Witness ==
    /\ pc = "publish"
    /\ entities = <<>>
    /\ stages = <<"extract">>
    /\ structured_event.impact_summary.severity = 1

\* C3: in every event process_article returns, on the full path and on the
\* zero-entity path, fact_check_passed is true iff hallucination_flags is empty.
C3_PassedIffNoFlags ==
    pc = "publish" =>
      (structured_event.fact_check_passed <=> Len(structured_event.hallucination_flags) = 0)

C3_Witness ==
    /\ pc = "publish"
    /\ stages = <<"extract", "relate", "filter", "validate", "summarize">>
    /\ Len(structured_event.hallucination_flags) > 0
    /\ ~structured_event.fact_check_passed

\* C4: validate_batch never raises a confidence: every entity passed to it
\* has afterwards a confidence at most the one it had before the call, also
\* when the call is answered from the cache of an earlier call.
C4_ConfidenceNeverRaised ==
    call.op = "validate_batch" =>
      \A i \in 1..Len(call.entities) :
        call.after[i].confidence <= call.entities[i].confidence

C4_Witness ==
    /\ call.op = "validate_batch"
    /\ \E i \in call.hits : call.after[i].confidence < call.entities[i].confidence
    /\ \E i \in 1..Len(call.entities) :
         i \notin call.hits /\ call.after[i].confidence < call.entities[i].confidence

\* the reasons a validation result can carry
Reasons == {"no_api_key", "not_found", "api_error", "unknown"}

\* the positions of flags that name the entity's name and type
FlagsNaming(flags, entity) ==
    {j \in 1..Len(flags) :
       \E r \in Reasons : flags[j] = entity.name \o " (" \o entity.type \o "): " \o r}

SameNameAndType(a, b) == a.name = b.name /\ a.type = b.type

\* C5 as claimed: an entity that fails validation never appears in
\* validated_entities, and its name+type appears exactly once in
\* hallucination_flags, also for batches that hold a name and type twice.
C5_FlaggedExactlyOnce ==
    (call.op = "validate_batch" /\ ~call.raised) =>
      \A i \in call.failed :
        /\ \A j \in 1..Len(call.validated) :
             ~SameNameAndType(call.validated[j], call.entities[i])
        /\ Cardinality(FlagsNaming(call.flags, call.entities[i])) = 1

\* C5 as amended: an entity that fails validation never appears in
\* validated_entities, and hallucination_flags holds one entry naming its
\* name+type for each failing entity of the batch with that name and type
\* (exactly one when the batch holds that name and type once).
C5_FlaggedOncePerOccurrence ==
    (call.op = "validate_batch" /\ ~call.raised) =>
      \A i \in call.failed :
        /\ \A j \in 1..Len(call.validated) :
             ~SameNameAndType(call.validated[j], call.entities[i])
        /\ Cardinality(FlagsNaming(call.flags, call.entities[i]))
             = Cardinality({k \in 1..Len(call.entities) :
                              SameNameAndType(call.entities[k], call.entities[i])})

C5_Witness ==
    /\ call.op = "validate_batch"
    /\ ~call.raised
    /\ \E i \in call.failed, k \in call.failed :
         i # k /\ SameNameAndType(call.entities[k], call.entities[i])
    /\ Len(call.flags) = 2

\* C6: filter_by_confidence is idempotent: filtering what it returned, with
\* the same threshold, returns the same list.
C6_FilterIdempotent ==
    (call.op = "filter_by_confidence" /\ call.again) => call.ret = call.relationships

C6_Witness ==
    /\ call.op = "filter_by_confidence"
    /\ call.again
    /\ Len(call.ret) > 0
    /\ Len(call.ret) < Len(call.original)

\* C7 as claimed: the committed offset moves only past documents whose event
\* was published or which the per-message handler dropped; it is never
\* committed while the document is being processed.
C7_CommitOnlyAfterPublishOrDrop ==
    [][committed' # committed =>
         \A k \in 1..(committed' - 1) : k \in published' \cup dropped']_vars

\* C8 as claimed: at-least-once: no document is behind the committed offset
\* (and so never delivered again) without a published event or a drop by the
\* handler.
C8_NoDocumentLost ==
    \A k \in 1..NumMsgs : k < committed => k \in published \cup dropped

\* C9 as claimed: no error raised for one message ends run(): the loop logs
\* it, skips the message and consumes the next.
C9_NoErrorHaltsConsumption == halted # "error"

\* C10: generate_summary never raises, and on any failure to obtain, decode
\* or schema-validate the inference response it returns severity 1, sectors
\* ["Unknown"], a non-empty summary and no stakeholders.
C10_SummaryFailure(resp) ==
    \/ resp.kind \in {"raise", "badjson", "scalar", "list"}
    \/ /\ resp.kind = "object"
       /\ \/ ~({"summary", "severity", "affected_sectors"} \subseteq resp.items[1].keys)
          \/ Len(resp.items[1].summary) > 500
          \/ resp.items[1].severity < 1
          \/ resp.items[1].severity > 10

C10_SummaryNeverRaises ==
    call.op = "generate_summary" =>
      /\ ~call.raised
      /\ C10_SummaryFailure(call.resp) =>
           /\ call.ret.severity = 1
           /\ call.ret.affected_sectors = <<"Unknown">>
           /\ call.ret.summary # ""
           /\ call.ret.key_stakeholders = <<>>

C10_Witness ==
    /\ call.op = "generate_summary"
    /\ call.resp.kind = "raise"
    /\ call.ret.severity = 1
    /\ call.ret.affected_sectors = <<"Unknown">>

(***************************************************************************)
(* The order of the stages and what they hand to each other.               *)
(***************************************************************************)
FullOrder == <<"extract", "relate", "filter", "validate", "summarize">>

IsPrefix(s, t) == Len(s) <= Len(t) /\ \A i \in 1..Len(s) : s[i] = t[i]

\* C11: for a document with at least one extracted entity the stages run in
\* the order extraction, relationship extraction, confidence filter,
\* validation, summarization; the mapper and the validator receive the
\* extracted entities, the filter the mapper's relationships, the summarizer
\* the validated entities and the filtered relationships; and the event is
\* built, from those outputs, only after the summarizer returned.
C11_StagesInOrder ==
    /\ IsPrefix(stages, FullOrder)
    /\ Len(calls) = Len(stages)
    /\ \A i \in 1..Len(calls) : calls[i].stage = stages[i]
    /\ Len(calls) >= 2 => calls[2].entities = calls[1].ret
    /\ Len(calls) >= 3 => calls[3].relationships = calls[2].ret
    /\ Len(calls) >= 4 => calls[4].entities = calls[1].ret
    /\ Len(calls) >= 5 =>
         /\ calls[5].entities = calls[4].ret.validated
         /\ calls[5].relationships = calls[3].ret
    /\ pc \in {"relate", "filter", "validate", "summarize"} =>
         /\ calls[1].ret # <<>>
         /\ structured_event = NoEvent
    /\ (pc = "publish" /\ calls[1].ret # <<>>) =>
         /\ stages = FullOrder
         /\ structured_event.entities = calls[4].ret.validated
         /\ structured_event.hallucination_flags = calls[4].ret.flags
         /\ structured_event.relationships = calls[3].ret
         /\ structured_event.impact_summary = calls[5].ret

C11_Witness ==
    /\ pc = "publish"
    /\ stages = FullOrder
    /\ Len(calls[4].ret.validated) < Len(calls[1].ret)
    /\ Len(calls[3].ret) < Len(calls[2].ret)
    /\ structured_event.entities = calls[5].entities

\* C12: the relationships are filtered to confidence >= 0.7 right after
\* their extraction and before validation runs, and every relationship of
\* an event process_article returns has confidence >= 0.7.
C12_ReturnedRelationshipsConfident ==
    /\ \A i \in 1..Len(stages) :
         stages[i] = "relate" => (i = Len(stages) \/ stages[i + 1] = "filter")
    /\ \A i \in 1..Len(stages) :
         stages[i] = "validate" => (i > 1 /\ stages[i - 1] = "filter")
    /\ pc \in {"validate", "summarize"} =>
         \A i \in 1..Len(relationships) : relationships[i].confidence >= 70
    /\ pc = "publish" =>
         \A i \in 1..Len(structured_event.relationships) :
           structured_event.relationships[i].confidence >= 70

C12_Witness ==
    /\ pc = "publish"
    /\ stages = FullOrder
    /\ \E i \in 1..Len(calls[2].ret) : calls[2].ret[i].confidence < 70
    /\ \E i \in 1..Len(structured_event.relationships) :
         structured_event.relationships[i].confidence >= 70

\* the inference call raised, or returned content json.loads rejects
InferenceFailed(answer) == answer \in {"raise", "badjson"}

\* C18: when the inference capability raises or returns undecodable output,
\* the entity extractor and the causal mapper return an empty list instead
\* of raising: the mapper's failure never drops the document, and the
\* extractor's empty list makes process_article return the minimal event.
C18_InferenceFailureGivesEmptyList ==
    /\ [](/\ (Len(calls) >= 1 /\ InferenceFailed(calls[1].answer)) =>
              /\ calls[1].ret = <<>>
              /\ stages = <<"extract">>
              /\ pc = "publish"
              /\ structured_event = MinimalEvent(ArticleId(cur))
          /\ (Len(calls) >= 2 /\ InferenceFailed(calls[2].answer)) =>
              calls[2].ret = <<>>)
    /\ [][pc = "relate" => pc' \in {"filter", "stopped", "down"}]_vars

C18_WitnessMapper ==
    /\ pc = "publish"
    /\ Len(calls) = 5
    /\ calls[2].answer = "raise"
    /\ calls[2].ret = <<>>

C18_Witness ==
    /\ pc = "publish"
    /\ calls[1].answer = "badjson"
    /\ structured_event = MinimalEvent(ArticleId(cur))

(***************************************************************************)
(* Per-element parsing and the confidence filter of the extractor.         *)
(***************************************************************************)
\* the position, among the positions S of a list, of position i
Rank(S, i) == Cardinality({j \in S : j <= i})

\* the list `out` is the elements of `in` at the positions S, in order
IsSelection(out, in, S) ==
    /\ Len(out) = Cardinality(S)
    /\ \A i \in S : out[Rank(S, i)] = in[i]

\* C13: every entity extract returns has confidence >= 0.7, and every
\* parsed entity with confidence >= 0.7 (0.7 included) is returned, in the
\* order of the inference response.
C13_ExtractKeepsHighConfidence ==
    call.op = "extract" =>
      /\ \A i \in 1..Len(call.ret) : call.ret[i].confidence >= 70
      /\ IsSelection(call.ret, call.refined,
                     {i \in 1..Len(call.refined) : call.refined[i].confidence >= 70})

C13_Witness ==
    /\ call.op = "extract"
    /\ \E i \in 1..Len(call.refined) : call.refined[i].confidence < 70
    /\ \E i \in 1..Len(call.ret) : call.ret[i].confidence = 70

\* C17: in entity extraction and in relationship extraction each element
\* of the decoded list is parsed on its own: an element that fails to parse
\* is dropped, and every well-formed element of the response is returned,
\* in order.
C17_ElementsParsedIndependently ==
    /\ (call.op = "extract" /\ call.resp.kind \in {"list", "wrapped"}) =>
         IsSelection(call.refined,
                     [i \in 1..Len(call.resp.items) |-> MkEntity(call.resp.items[i])],
                     {i \in 1..Len(call.resp.items) : EntityParses(call.resp.items[i])})
    /\ (call.op = "extract_relationships" /\ call.resp.kind \in {"list", "wrapped"}) =>
         IsSelection(call.ret,
                     [i \in 1..Len(call.resp.items) |-> MkRelationship(call.resp.items[i])],
                     {i \in 1..Len(call.resp.items) : RelParses(call.resp.items[i])})

C17_Witness ==
    /\ call.op = "extract_relationships"
    /\ Len(call.resp.items) = 2
    /\ ~RelParses(call.resp.items[1])
    /\ Len(call.ret) = 1

C17_WitnessExtractor ==
    /\ call.op = "extract"
    /\ Len(call.resp.items) = 2
    /\ ~EntityParses(call.resp.items[1])
    /\ Len(call.refined) = 1

\* C19 as claimed: the subject and the object of every relationship
\* extract_relationships returns have the name and type of some entity of
\* the list passed in.
C19_RelationshipsWithinEntitySet ==
    call.op = "extract_relationships" =>
      \A i \in 1..Len(call.ret) :
        /\ \E j \in 1..Len(call.entities) :
             SameNameAndType(call.entities[j], call.ret[i].subject)
        /\ \E j \in 1..Len(call.entities) :
             SameNameAndType(call.entities[j], call.ret[i].object)

(***************************************************************************)
(* The FactChecker over sequences of batches.                              *)
(***************************************************************************)
\* a request for the name and type of entity e is in the set of requests L
LookedUp(L, e) == \E l \in L : l.name = e.name /\ l.type = e.type

\* ... and the reference service answered it (the request did not end in an
\* exception that left the validator)
Answered(L, e) ==
    \E l \in L : l.name = e.name /\ l.type = e.type /\ l.answer # "raised"

\* the requests of the current batch before its k-th one
EarlierInBatch(k) ==
    {[name |-> call.entities[call.log[j].pos].name,
      type |-> call.entities[call.log[j].pos].type,
      answer |-> AnswerKind(call.log[j].http)] : j \in 1..(k - 1)}

C15_UnknownTypePassedThrough ==
    (call.op = "validate_batch" /\ ~call.raised) =>
      \A i \in 1..Len(call.entities) :
        call.entities[i].type \notin {"company", "person", "location", "event"} =>
          /\ i \notin call.failed
          /\ \E j \in 1..Len(call.validated) : call.validated[j] = call.after[i]
          /\ call.after[i].confidence = call.entities[i].confidence
          /\ "skipped" \in DOMAIN call.after[i].metadata
          /\ FlagsNaming(call.flags, call.entities[i]) = {}

\* the answers of a batch, with not-found in place of every transport
\* failure
AsNotFound(log, n) ==
    [i \in 1..n |->
       IF \E k \in 1..Len(log) :
            log[k].pos = i /\ log[k].http \notin {"non200", "exception"}
       THEN log[CHOOSE k \in 1..Len(log) : log[k].pos = i].http
       ELSE "empty"]

\* C16 as claimed: validate_batch gives the same validated_entities and the
\* same hallucination flags when a lookup fails at transport level as when
\* it returns not-found.
C16_TransportFailureSameAsNotFound ==
    call.op = "validate_batch" =>
      /\ call.validated =
           validate_batch(call.entities, call.before, crunchbase_api_key,
                          AsNotFound(call.log, Len(call.entities))).validated
      /\ call.flags =
           validate_batch(call.entities, call.before, crunchbase_api_key,
                          AsNotFound(call.log, Len(call.entities))).flags

\* the reference lookup for entity e reports not validated: the service
\* answered without a match or the request failed, or no key is configured
\* for the company registry
ReportsNotValidated(e) ==
    \/ e.type = "company" /\ ~crunchbase_api_key
    \/ \E l \in lookups : /\ l.name = e.name
                            /\ l.type = e.type
                            /\ l.answer \in {"no_match", "transport"}

\* C20: a company, person, location or event entity whose lookup reports
\* not validated is not in validated_entities, and hallucination_flags
\* holds a string with its name and its type.
C20_NotValidatedExcludedAndFlagged ==
    (call.op = "validate_batch" /\ ~call.raised) =>
      \A i \in 1..Len(call.entities) :
        (call.entities[i].type \in {"company", "person", "location", "event"}
           /\ ReportsNotValidated(call.entities[i])) =>
          /\ \A j \in 1..Len(call.validated) :
               ~SameNameAndType(call.validated[j], call.entities[i])
          /\ \E j \in 1..Len(call.flags), r \in Reasons :
               call.flags[j] = call.entities[i].name \o " (" \o call.entities[i].type
                                 \o "): " \o r

C20_Witness ==
    /\ call.op = "validate_batch"
    /\ ~call.raised
    /\ Len(call.validated) = 1
    /\ call.flags = <<"Elon Musk (person): not_found">>

(***************************************************************************)
(* The degraded mode of the summarizer.                                    *)
(***************************************************************************)
\* C25: the degraded-mode result of generate_summary is one fixed value:
\* whatever the kind of failure (call raised, response not valid JSON,
\* required field missing, field out of range), the ImpactSummary returned
\* is the same in every field, the summary string included.
C25_OneDegradedValue ==
    (call.op = "generate_summary" /\ C10_SummaryFailure(call.resp)) =>
      \A other \in SummaryResponses :
        C10_SummaryFailure(other) =>
          generate_summary("text", <<>>, <<>>, other).ret = call.ret

(***************************************************************************)
(* The bounds of the ImpactSummary of an event.                            *)
(***************************************************************************)
\* C30: every ImpactSummary in an event returned by process_article, from
\* an inference response, from the degraded mode or from the zero-entity
\* path, has severity in [1,10] and a summary of at most 500 characters; an
\* inference response outside these bounds gives the degraded-mode summary,
\* not an out-of-range value and not an exception.
C30_SummaryWithinBounds ==
    /\ [](/\ structured_event # NoEvent =>
              /\ structured_event.impact_summary.severity \in 1..10
              /\ Len(structured_event.impact_summary.summary) <= 500
          /\ \A k \in 1..Len(calls) :
               (calls[k].stage = "summarize" /\ calls[k].answer = "out_of_range") =>
                 /\ calls[k].ret \in {DegradedDecode, DegradedError}
                 /\ structured_event # NoEvent
                 /\ structured_event.impact_summary = calls[k].ret)
    /\ [][pc = "summarize" => pc' \in {"publish", "stopped", "down"}]_vars

C30_Witness ==
    /\ pc = "publish"
    /\ \E k \in 1..Len(calls) :
         calls[k].stage = "summarize" /\ calls[k].answer = "out_of_range"
    /\ structured_event.impact_summary.severity = 1
    /\ structured_event.impact_summary.affected_sectors = <<"Unknown">>

C30_WitnessZeroEntity ==
    /\ pc = "publish"
    /\ stages = <<"extract">>
    /\ structured_event.impact_summary = MinimalSummary

(***************************************************************************)
(* The action label of a relationship.                                     *)
(***************************************************************************)
\* C29: every relationship returned by extract_relationships has an action
\* that equals its own upper-cased form, whatever casing the response used;
\* an element whose action is not a string is dropped, not returned.
C29_ActionUpperCased ==
    call.op = "extract_relationships" =>
      /\ \A i \in DOMAIN call.ret :
           /\ Upper(call.ret[i].action) = call.ret[i].action
           /\ \E j \in DOMAIN call.resp.items :
                /\ call.resp.items[j].actionIsStr
                /\ call.ret[i].action = Upper(call.resp.items[j].action)
      /\ Len(call.ret) <= Cardinality({j \in DOMAIN call.resp.items :
                                         call.resp.items[j].actionIsStr})

C29_Witness ==
    /\ call.op = "extract_relationships"
    /\ call.resp.kind = "list"
    /\ call.resp.items = <<ObjRelNumericAction, ObjRelHigh>>
    /\ Len(call.ret) = 1
    /\ call.ret[1].action = "RAISES_RATES_FOR"

(***************************************************************************)
(* How the two list stages normalise a decoded response.                   *)
(***************************************************************************)
\* C28: the relationship mapper normalises a decoded inference response the
\* way the entity recognizer does: for every response shape (bare list,
\* object holding the list under the stage's key, object without that key,
\* scalar) the two stages hand the same elements to per-element parsing.
C28_SameNormalisation ==
    /\ call.op = "extract" => call.handed = RelItems(call.resp)
    /\ (call.op = "extract_relationships" /\ call.infer = 1) =>
         call.handed = EntityItems(call.resp)

(***************************************************************************)
(* What a successful lookup does to the entity.                            *)
(***************************************************************************)
\* the result the reference service of the entity's type returns for http
LookupResult(entity, http) ==
    IF entity.type = "company"
    THEN validate_company_crunchbase(entity.name, TRUE, http).res
    ELSE validate_entity_wikidata(entity.name, entity.type, http).res

\* C26: for an entity whose lookup succeeds with returned confidence c and
\* returned metadata m, validate_batch leaves the entity with confidence
\* exactly min(confidence before, c) and with a metadata map that holds
\* every key of m with m's value and keeps every key it had that m lacks.
C26_ConfidenceMinMetadataMerged ==
    call.op = "validate_batch" =>
      \A k \in 1..Len(call.log) :
        call.log[k].http \in {"exact", "partial"} =>
          LET before == call.entities[call.log[k].pos]
              after == call.after[call.log[k].pos]
              c == LookupResult(before, call.log[k].http).confidence
              m == LookupResult(before, call.log[k].http).metadata
          IN  /\ after.confidence = (IF before.confidence <= c THEN before.confidence ELSE c)
              /\ \A key \in DOMAIN m :
                   key \in DOMAIN after.metadata /\ after.metadata[key] = m[key]
              /\ \A key \in (DOMAIN before.metadata) \ (DOMAIN m) :
                   key \in DOMAIN after.metadata /\ after.metadata[key] = before.metadata[key]

C26_Witness ==
    /\ call.op = "validate_batch"
    /\ \E k \in 1..Len(call.log) :
         /\ call.log[k].http = "exact"
         /\ call.entities[call.log[k].pos] = MkEntity(ObjTesla)
         /\ call.after[call.log[k].pos].confidence = 90
         /\ DOMAIN call.after[call.log[k].pos].metadata =
              {"industry", "crunchbase_uuid", "permalink", "short_description"}
    /\ \E k \in 1..Len(call.log) :
         /\ call.log[k].http = "partial"
         /\ call.entities[call.log[k].pos] = MkEntity(ObjMusk)
         /\ call.after[call.log[k].pos].confidence = 80

(***************************************************************************)
(* Several processors: whose cache is whose.                               *)
(***************************************************************************)
\* C21: with several processors running side by side in any interleaving,
\* each FactChecker's validation cache is private to its instance: what one
\* instance cached is never read, overwritten or evicted through another
\* instance, and a pair cached in instance A still causes an external
\* lookup the first time instance B validates it.
C21_CachePrivateToInstance ==
    /\ [](\A i \in Instances :
            /\ (at[i].step = "return" /\ at[i].hit) =>
                 /\ CacheKey(at[i].entity) \in DOMAIN instance_cache[i]
                 /\ at[i].res = instance_cache[i][CacheKey(at[i].entity)]
            /\ \A e \in InstanceEntities :
                 (/\ CacheKey(e) \in DOMAIN instance_cache[i]
                  /\ e.type = "company" => crunchbase_api_key)
                   => [inst |-> i, name |-> e.name, type |-> e.type] \in requested)
    /\ [][\A i \in Instances :
            /\ \A k \in DOMAIN instance_cache[i] :
                 /\ k \in DOMAIN instance_cache'[i]
                 /\ instance_cache'[i][k] = instance_cache[i][k]
            /\ instance_cache'[i] # instance_cache[i] =>
                 (at[i].step = "store" /\ at'[i].step = "return")]_vars

\* both instances hold the pair, each after a lookup of its own, and the
\* entry the wrapper kept for A has been evicted by later calls
C21_Witness ==
    /\ \A i \in Instances : "Elon Musk:person" \in DOMAIN instance_cache[i]
    /\ \A i \in Instances :
         [inst |-> i, name |-> "Elon Musk", type |-> "person"] \in requested
    /\ Len(lru_store["validate_entity_wikidata"]) = LruMaxSize
    /\ ~LruHit(lru_store["validate_entity_wikidata"], <<"A", "Elon Musk", "person">>)
    /\ at["A"].step = "return"
    /\ at["A"].hit
    /\ at["A"].entity.name = "Elon Musk"

(***************************************************************************)
(* The key of the validation cache.                                        *)
(***************************************************************************)
\* C27: the validation cache is keyed per (name, type) pair: two entities
\* with different (name, type) pairs never share a cache entry, for all
\* names and types, those holding the ':' character included, so a cached
\* result is only returned for the pair that produced it.
C27_CacheKeyedPerPair ==
    call.op = "validate_batch_once" =>
      \A i, j \in DOMAIN call.entities :
        ~SameNameAndType(call.entities[i], call.entities[j]) =>
          /\ CacheKey(call.entities[i]) # CacheKey(call.entities[j])
          /\ ~call.raised => Cardinality(DOMAIN call.cache) >= 2

(***************************************************************************)
(* The thresholds as arguments.                                            *)
(***************************************************************************)
\* C22: both confidence thresholds can be overridden per invocation: entity
\* extraction run with a threshold t returns exactly the entities with
\* confidence >= t, relationship filtering run with a threshold t returns
\* exactly the relationships with confidence >= t, and both default to 0.7.
C22_ThresholdsOverridable ==
    /\ call.op = "extract_with_threshold" =>
         /\ ~call.raised
         /\ call.ret = SelectIdx(call.refined,
                                 [i \in DOMAIN call.refined |->
                                    call.refined[i].confidence >= call.threshold], 1)
    /\ call.op = "extract" =>
         call.ret = SelectIdx(call.refined,
                              [i \in DOMAIN call.refined |->
                                 call.refined[i].confidence >= 70], 1)
    /\ call.op = "filter_by_confidence" =>
         call.ret = SelectIdx(call.relationships,
                              [i \in DOMAIN call.relationships |->
                                 call.relationships[i].confidence >= call.threshold], 1)

(***************************************************************************)
(* One document at a time.                                                 *)
(***************************************************************************)
\* the stages that have run for the current document when run() is at p
StagesDoneAt(p) ==
    CASE p = "relate" -> {<<"extract">>}
      [] p = "filter" -> {<<"extract", "relate">>}
      [] p = "validate" -> {<<"extract", "relate", "filter">>}
      [] p = "summarize" -> {<<"extract", "relate", "filter", "validate">>}
      [] p = "publish" -> {<<"extract">>, FullOrder}
      [] OTHER -> {<<>>}

\* C23: within one processor, documents are processed one at a time end to
\* end: no stage of the next document starts before the current one has
\* been published or skipped by the error handler, and the stages of one
\* document never overlap.
C23_OneDocumentAtATime ==
    /\ stages \in StagesDoneAt(pc)
    /\ (pc = "poll" /\ cur # 0) => cur \in published \cup dropped
    /\ (Running /\ pc # "poll") => (cur # 0 /\ cur = position - 1)

C23_Witness ==
    /\ pc = "relate"
    /\ cur = 2
    /\ stages = <<"extract">>
    /\ 1 \in published

(***************************************************************************)
(* An exception in a stage.                                                *)
(***************************************************************************)
StagePositions == {"extract", "relate", "filter", "validate", "summarize"}

\* C24: if a stage raises an unexpected exception while a document is
\* processed, the exception reaches the per-message handler of run(), no
\* event is published for that document, and no stage is invoked a second
\* time for it: the processor does not retry.
C24_StageExceptionSkipsDocument ==
    /\ [](raised_in \in StagePositions =>
            /\ pc = "poll"
            /\ cur \in dropped
            /\ stages = <<>>
            /\ structured_event = NoEvent
            /\ position > cur)
    /\ [][(pc \in StagePositions /\ pc' = "poll") =>
            /\ raised_in' = pc
            /\ outbound' = outbound]_vars
    /\ [][(raised_in \in StagePositions /\ pc' \notin {"stopped", "down"}) =>
            /\ cur' > cur
            /\ outbound' = outbound]_vars

C24_Witness ==
    /\ raised_in = "validate"
    /\ cur = 1
    /\ 1 \notin published
    /\ position = 2

(***************************************************************************)
(* filter_by_confidence as a function of the list and the threshold.       *)
(***************************************************************************)
\* the list a is b with some elements left out
IsSubList(a, b) == \E S \in SUBSET (DOMAIN b) : IsSelection(a, b, S)

\* C32: filter_by_confidence(L, t) returns exactly the relationships of L
\* with confidence >= t (one with confidence equal to t is kept), in their
\* original order, and does not modify L; so for t1 <= t2 the result for t2
\* is a sub-list of the result for t1.
C32_FilterExactOrderedPure ==
    call.op = "filter_by_confidence" =>
      /\ IsSelection(call.ret, call.relationships,
                     {i \in 1..Len(call.relationships) :
                        call.relationships[i].confidence >= call.threshold})
      /\ call.after = call.relationships
      /\ \A t2 \in Thresholds :
           call.threshold <= t2 =>
             IsSubList(filter_by_confidence(call.relationships, t2), call.ret)

C32_Witness ==
    /\ call.op = "filter_by_confidence"
    /\ ~call.again
    /\ call.threshold = 70
    /\ Len(call.relationships) = 2
    /\ call.relationships[1].confidence = 50
    /\ call.relationships[2].confidence = 70
    /\ Len(call.ret) = 1
    /\ Len(filter_by_confidence(call.relationships, 89)) = 0

(***************************************************************************)
(* validate_batch as a partition of its input.                             *)
(***************************************************************************)
\* C36: validate_batch partitions its input: every input entity ends up
\* either in validated_entities or as one entry of hallucination_flags,
\* never in both, so the two lengths add up to the number of input
\* entities, and both outputs keep the input order.
C36_BatchPartitioned ==
    (call.op = "validate_batch" /\ ~call.raised) =>
      /\ Len(call.validated) + Len(call.flags) = Len(call.entities)
      /\ \E S \in SUBSET (1..Len(call.entities)) :
           /\ IsSelection(call.validated, call.after, S)
           /\ Len(call.flags) = Len(call.entities) - Cardinality(S)
           /\ \A i \in (1..Len(call.entities)) \ S :
                Rank((1..Len(call.entities)) \ S, i)
                  \in FlagsNaming(call.flags, call.entities[i])
           /\ \A i \in S :
                Cardinality(FlagsNaming(call.flags, call.entities[i]))
                  = Cardinality({k \in (1..Len(call.entities)) \ S :
                                   SameNameAndType(call.entities[k], call.entities[i])})

\* two different entities flagged, in the order of the batch
C36_Witness ==
    /\ call.op = "validate_batch"
    /\ ~call.raised
    /\ Len(call.entities) = 2
    /\ call.entities[1].name = "Elon Musk"
    /\ call.entities[2].name = "Tesla"
    /\ call.validated = <<>>
    /\ Len(call.flags) = 2
    /\ 1 \in FlagsNaming(call.flags, call.entities[1])
    /\ 2 \in FlagsNaming(call.flags, call.entities[2])

(***************************************************************************)
(* Companies without a key for the business registry.                      *)
(***************************************************************************)
\* C39: when no business-registry key is configured, every entity of type
\* company is reported as not validated without any external call: it is
\* added to hallucination_flags and is not in the validated list, and a
\* document with an accepted company entity gets fact_check_passed = false.
C39_NoKeyCompaniesFlagged ==
    (call.op = "validate_batch_once" /\ ~crunchbase_api_key /\ ~call.raised) =>
      \A i \in 1..Len(call.entities) :
        call.entities[i].type = "company" =>
          /\ \A k \in 1..Len(call.log) : call.log[k].pos # i
          /\ FlagsNaming(call.flags, call.entities[i]) # {}
          /\ \A j \in 1..Len(call.validated) :
               ~SameNameAndType(call.validated[j], call.entities[i])
          /\ ~FactCheckPassed(call.flags)

(***************************************************************************)
(* What validation leaves alone.                                           *)
(***************************************************************************)
\* C31: validate_batch changes nothing but the confidence and the metadata
\* of the entities it is given: every entity's name and type are unchanged,
\* and the relationship list extracted earlier for the document, with the
\* subject and object copies embedded in each relationship and their
\* confidences, is unchanged by validation.
C31_ValidationFrame ==
    (Len(stages) >= 4 /\ stages[4] = "validate") =>
      /\ Len(entities) = Len(calls[4].entities)
      /\ \A i \in 1..Len(entities) :
           /\ entities[i].name = calls[4].entities[i].name
           /\ entities[i].type = calls[4].entities[i].type
      /\ relationships = calls[3].ret
      /\ pc = "publish" => structured_event.relationships = calls[3].ret

\* validation changed the metadata of an entity that a relationship names
C31_Witness ==
    /\ pc = "publish"
    /\ stages = FullOrder
    /\ Len(relationships) > 0
    /\ relationships[1].subject.name = "Tesla"
    /\ relationships[1].subject = calls[4].entities[1]
    /\ entities[1].name = "Tesla"
    /\ entities[1].metadata # calls[4].entities[1].metadata

(***************************************************************************)
(* The relationships of an event and its entities.                         *)
(***************************************************************************)
\* the event lists an entity with the name and type of e
InEventEntities(e) ==
    \E i \in 1..Len(structured_event.entities) :
      SameNameAndType(structured_event.entities[i], e)

\* a flag of the event names e
FlaggedInEvent(e) == FlagsNaming(structured_event.hallucination_flags, e) # {}

\* C37: in every event process_article returns, the subject and the object
\* of every relationship are entities of the event's entities list; no
\* relationship refers to an entity that validation flagged and removed.
C37_RelationshipsWithinEventEntities ==
    pc = "publish" =>
      \A k \in 1..Len(structured_event.relationships) :
        /\ InEventEntities(structured_event.relationships[k].subject)
        /\ InEventEntities(structured_event.relationships[k].object)
        /\ ~FlaggedInEvent(structured_event.relationships[k].subject)
        /\ ~FlaggedInEvent(structured_event.relationships[k].object)

(***************************************************************************)
(* The tagger pass of the extractor.                                       *)
(***************************************************************************)
\* C34: the tagger pass never fails hard: no document leaves the loop's
\* handler because EntityExtractor.extract raised, whatever the tagger did;
\* pass two still runs on the document text.
C34_TaggerNeverFailsHard ==
    /\ raised_in # "extract"
    /\ (pc \in {"relate", "filter", "validate", "summarize", "publish"})
         => (Len(calls) >= 1 /\ calls[1].stage = "extract")

(***************************************************************************)
(* What reaches the outbound topic.                                        *)
(***************************************************************************)
\* process_article returned the event of the message at offset cur
ReturnedNormally ==
    /\ pc = "publish"
    /\ stages \in {<<"extract">>, FullOrder}
    /\ structured_event.article_id = ArticleId(cur)

\* C38: for every message run() consumes, at most one event is published;
\* it is published only after process_article returned normally for that
\* message, and its article_id is the article_id of that message.
C38_OneEventPerMessage ==
    /\ [](\A e \in outbound : e.article_id = ArticleId(e.offset))
    /\ [](pc = "publish" => ReturnedNormally)
    /\ [][/\ outbound' # outbound =>
               /\ ReturnedNormally
               /\ outbound' = outbound \cup {[offset |-> cur, article_id |-> ArticleId(cur)]}
               /\ pc' = "poll"
          /\ (pc = "publish" /\ pc' = "publish") => UNCHANGED <<outbound, cur>>
          /\ (pc' = "publish" /\ pc # "publish") =>
               (pc \in {"extract", "summarize"} /\ cur' = cur)]_vars

C38_Witness ==
    /\ pc = "poll"
    /\ cur = 2
    /\ [offset |-> 2, article_id |-> ArticleId(2)] \in outbound
    /\ 1 \in dropped

(***************************************************************************)
(* The enhanced extractor and the confidence threshold.                    *)
(***************************************************************************)
\* C35: EnhancedEntityExtractor.extract, in every backend mode (NER only,
\* LLM only, hybrid), returns only entities whose confidence is at least
\* 0.7, like EntityExtractor.extract does.
C35_EnhancedExtractAboveThreshold ==
    call.op = "enhanced_extract" =>
      \A i \in 1..Len(call.ret) : HighConfidence(call.ret[i])

(***************************************************************************)
(* Every document taken from the feed ends.                                *)
(***************************************************************************)
\* the document at offset k has been taken from the feed and is in process
Taken(k) == cur = k /\ pc \in {"parse"} \cup StagePositions \cup {"publish"}

\* the loop is back at the iterator, the document at offset k published or
\* skipped by the handler
Ended(k) == pc = "poll" /\ cur = k /\ (k \in published \/ k \in dropped)

\* C33: every document taken from the inbound feed reaches a terminal
\* outcome: when every external call returns or raises, its processing ends
\* with its event published or with the document skipped by the handler,
\* and the loop is back at taking the next message.
C33_EveryDocumentEnds ==
    \A k \in 1..NumMsgs : Taken(k) ~> Ended(k)

C33_Witness ==
    /\ Ended(2)
    /\ 2 \in dropped
    /\ 1 \in published
    /\ raised_in = "publish"

=============================================================================
